------------------------------- MODULE Daemon -------------------------------
(***************************************************************************)
(* The process freepopsd: its start (main in freepops.c, sock_bind), the    *)
(* pid file it shares with every other one (pid.c), --kill, the signals    *)
(* (sighandler), the log of its threads (log.c) and what they count        *)
(* (stats_lua.c).                                                          *)
(***************************************************************************)
EXTENDS Integers, Sequences, FiniteSetsExt

CONSTANTS
  Proc,        \* processes, each started once
  MaxSessions, \* bound: sessions of a process
  Busy,        \* the processes that clients connect to
  Main,        \* its main thread
  None,
  MaxLines,    \* bound: lines a process logs while it serves
  MaxRunning   \* bound: processes, sessions and signal handlers at a time

ASSUME Names  == Main \notin Nat /\ None \notin Proc \cup Nat \cup {Main} /\ Busy \subseteq Proc
ASSUME Bounds == {MaxSessions, MaxLines, MaxRunning} \subseteq Nat

VARIABLES
  main,     \* where main is
  sess,     \* where each session thread is
  lines,    \* lines logged while serving
  mutex,    \* who holds the mutex of logit: a thread or one of its handlers
  closed,   \* has log_end closed the log?
  handler,  \* the signal handlers running: their thread, signal and place
  loaded,   \* the counter a session thread is incrementing, what it was, and
            \* whether the thread has counted its session as bad already
  count,    \* the statistics
  dir,      \* the pid file there is, by the process that created it
  content,  \* what has been written to it
  file,     \* the one a process has open and has not written to yet
  wrote,    \* has it written its pid into the one it created?
  overlap   \* have two processes been running at a time?

threads == <<sess, lines, mutex, closed, loaded, count>>
pidfile == <<dir, content, file, wrote>>
vars    == <<main, threads, handler, pidfile, overlap>>

Session == 1 .. MaxSessions
Thread  == Session \cup {Main}
Kind   == {"ok", "err"}
Free   == <<None, 0>>

Startup == {"create", "say", "saying", "write", "signals"}
Armed   == {"bind", "accept", "refuse", "count"}
Serving == Armed \ {"bind"}

Alive(p) == main[p] \in Startup \cup Armed

(* The handlers that run on thread t                                       *)
On(p, t) == {i \in DOMAIN handler[p] : handler[p][i].on = t}

(* A thread runs its own code unless a signal has interrupted it, and a     *)
(* handler unless another signal has                                       *)
Runs(p, t) == Alive(p) /\ On(p, t) = {}
Top(p, i)  == Alive(p) /\ \A j \in On(p, handler[p][i].on) : j <= i

(* Those inside logit or log_end                                           *)
Inside == {"telling", "saying", "exit"}
InLog(p) ==
  (IF main[p] \in {"saying", "refuse"} THEN {<<Main, 0>>} ELSE {})
  \cup {<<t, 0>> : t \in {s \in Session : sess[p][s] = "log"}}
  \cup {<<handler[p][i].on, i>> :
          i \in {j \in DOMAIN handler[p] : handler[p][j].pc \in Inside}}

Place        == {"off", "gone"} \cup Startup \cup Armed
SessionPlace == {"none", "run", "log", "store", "over"}
Holder       == (Thread \cup {None}) \X Nat
HandlerState == [on : Thread, sig : 1 .. 2, pc : Inside \cup {"tell", "say", "end"}]
Load         == [kind : Kind, was : Nat, bad : BOOLEAN]
Counters     == [created : Nat, ok : Nat, err : Nat]

Types ==
  /\ main \in [Proc -> Place]
  /\ sess \in [Proc -> [Session -> SessionPlace]]
  /\ lines \in [Proc -> 0 .. MaxLines]
  /\ mutex \in [Proc -> Holder]
  /\ closed \in [Proc -> BOOLEAN]
  /\ handler \in [Proc -> Seq(HandlerState)]
  /\ loaded \in [Proc -> [Session -> Load]]
  /\ count \in [Proc -> Counters]
  /\ dir \in Proc \cup {None} /\ content \in Proc \cup {None}
  /\ file \in [Proc -> Proc \cup {None}] /\ wrote \in [Proc -> BOOLEAN]
  /\ overlap \in BOOLEAN

(* Types; the mutex is held by the one that is inside                      *)
TypeOK == Types /\ \A p \in Proc : Alive(p) => InLog(p) = {mutex[p]} \ {Free}

NoSession == [s \in Session |-> "none"]
NoLoad    == [s \in Session |-> [kind |-> "ok", was |-> 0, bad |-> FALSE]]
NoCount   == [created |-> 0, ok |-> 0, err |-> 0]

Init ==
  /\ main = [p \in Proc |-> "off"]
  /\ sess = [p \in Proc |-> NoSession]
  /\ lines = [p \in Proc |-> 0]
  /\ mutex = [p \in Proc |-> Free]
  /\ closed = [p \in Proc |-> FALSE]
  /\ handler = [p \in Proc |-> <<>>]
  /\ loaded = [p \in Proc |-> NoLoad]
  /\ count = [p \in Proc |-> NoCount]
  /\ dir = None
  /\ content = None
  /\ file = [p \in Proc |-> None]
  /\ wrote = [p \in Proc |-> FALSE]
  /\ overlap = FALSE

-----------------------------------------------------------------------------
(* main *)

Goto(p, from, to) == Runs(p, Main) /\ main[p] = from /\ main' = [main EXCEPT ![p] = to]

(* The process ends, and with it all it has in memory                      *)
Die(p) ==
  /\ main' = [main EXCEPT ![p] = "gone"]
  /\ sess' = [sess EXCEPT ![p] = NoSession]
  /\ lines' = [lines EXCEPT ![p] = 0]
  /\ mutex' = [mutex EXCEPT ![p] = Free]
  /\ closed' = [closed EXCEPT ![p] = FALSE]
  /\ handler' = [handler EXCEPT ![p] = <<>>]
  /\ loaded' = [loaded EXCEPT ![p] = NoLoad]
  /\ count' = [count EXCEPT ![p] = NoCount]
  /\ file' = [file EXCEPT ![p] = None]
  /\ wrote' = [wrote EXCEPT ![p] = FALSE]

Running ==
  Cardinality({p \in Proc : Alive(p)})
    + Cardinality({ps \in Proc \X Session : sess[ps[1]][ps[2]] # "none"})
    + MapThenSumSet(LAMBDA p : Len(handler[p]), Proc)

Start(p) ==
  /\ main[p] = "off"
  /\ Running < MaxRunning
  /\ main' = [main EXCEPT ![p] = "create"]
  /\ overlap' = (overlap \/ \E q \in Proc : Alive(q))
  /\ UNCHANGED <<threads, handler, pidfile>>

(* create_pid_file: the file is empty until the pid is written, after a     *)
(* line has been logged                                                    *)
CreatePid(p) ==
  /\ Goto(p, "create", "say")
  /\ dir' = IF dir = None THEN p ELSE dir
  /\ file' = [file EXCEPT ![p] = dir']
  /\ content' = None
  /\ UNCHANGED <<wrote, threads, handler, overlap>>

(* The daemon serves without: the file cannot be created, which is logged    *)
(* and ignored, or -n says not to                                          *)
NoPid(p) ==
  /\ Goto(p, "create", "say") \/ Goto(p, "create", "signals")
  /\ UNCHANGED <<pidfile, threads, handler, overlap>>

(* Fault: the file is not closed, and what is written stays in its buffer    *)
WritePid_Unflushed(p) ==
  /\ Goto(p, "write", "signals")
  /\ file' = [file EXCEPT ![p] = None]
  /\ wrote' = [wrote EXCEPT ![p] = TRUE]
  /\ UNCHANGED <<dir, content, threads, handler, overlap>>

(* The file it has open may have been removed, or written by another.  Of    *)
(* a disk that is full nobody is told.                                     *)
WritePid(p) ==
  /\ Goto(p, "write", "signals")
  /\ \E done \in BOOLEAN :
       /\ content' = IF done /\ file[p] = dir THEN p ELSE content
       /\ wrote' = [wrote EXCEPT ![p] = done]
  /\ file' = [file EXCEPT ![p] = None]
  /\ UNCHANGED <<dir, threads, handler, overlap>>

SetSignals(p) ==
  /\ Goto(p, "signals", "bind")
  /\ UNCHANGED <<threads, handler, pidfile, overlap>>

Bind(p) ==
  /\ Goto(p, "bind", "accept")
  /\ UNCHANGED <<threads, handler, pidfile, overlap>>

(* The port is taken, or the rights cannot be given up.  exit(1): the pid    *)
(* file stays.                                                             *)
BindFails(p) ==
  /\ Goto(p, "bind", "gone") /\ Die(p)
  /\ UNCHANGED <<dir, content, overlap>>

(* A connection is given to a thread, which may run before it is counted   *)
Accept(p) ==
  /\ p \in Busy /\ Goto(p, "accept", "count")
  /\ Running < MaxRunning
  /\ \E s \in Session :
       /\ sess[p][s] = "none" /\ \A x \in 1 .. s - 1 : sess[p][x] # "none"
       /\ sess' = [sess EXCEPT ![p][s] = "run"]
  /\ UNCHANGED <<lines, mutex, closed, loaded, count, handler, pidfile, overlap>>

CountCreated(p) ==
  /\ Goto(p, "count", "accept")
  /\ count' = [count EXCEPT ![p].created = @ + 1]
  /\ UNCHANGED <<sess, lines, mutex, closed, loaded, handler, pidfile, overlap>>

-----------------------------------------------------------------------------
(* logit *)

Lock(p, who)   == mutex[p] = Free /\ mutex' = [mutex EXCEPT ![p] = who]
Unlock(p, who) == mutex[p] = who /\ mutex' = [mutex EXCEPT ![p] = Free]

(* By main: in create_pid_file, and for a connection that is refused        *)
MainLogs(p) ==
  /\ \/ Goto(p, "say", "saying") /\ UNCHANGED lines
     \/ /\ p \in Busy /\ Goto(p, "accept", "refuse")
        /\ lines[p] < MaxLines
        /\ lines' = [lines EXCEPT ![p] = @ + 1]
  /\ Lock(p, <<Main, 0>>)
  /\ UNCHANGED <<sess, closed, loaded, count, handler, pidfile, overlap>>

MainLogged(p) ==
  /\ \/ Goto(p, "saying", IF file[p] = None THEN "signals" ELSE "write")
     \/ Goto(p, "refuse", "accept")
  /\ Unlock(p, <<Main, 0>>)
  /\ UNCHANGED <<sess, lines, closed, loaded, count, handler, pidfile, overlap>>

SessGoto(p, s, from, to) ==
  Runs(p, s) /\ sess[p][s] = from /\ sess' = [sess EXCEPT ![p][s] = to]

SessionLogs(p, s) ==
  /\ SessGoto(p, s, "run", "log")
  /\ lines[p] < MaxLines
  /\ lines' = [lines EXCEPT ![p] = @ + 1]
  /\ Lock(p, <<s, 0>>)
  /\ UNCHANGED <<main, closed, loaded, count, handler, pidfile, overlap>>

SessionLogged(p, s) ==
  /\ SessGoto(p, s, "log", "run")
  /\ Unlock(p, <<s, 0>>)
  /\ UNCHANGED <<main, lines, closed, loaded, count, handler, pidfile, overlap>>

(* counter++ of the statistics, without a mutex: a load and a store.  A      *)
(* session that has been counted as bad may only be counted as bad again.   *)
SessionLoads(p, s) ==
  /\ SessGoto(p, s, "run", "store")
  /\ \E k \in IF loaded[p][s].bad THEN {"err"} ELSE Kind :
       loaded' = [loaded EXCEPT ![p][s] = [kind |-> k, was |-> count[p][k], bad |-> @.bad]]
  /\ UNCHANGED <<main, lines, mutex, closed, count, handler, pidfile, overlap>>

(* Fault: what has been counted is forgotten                               *)
SessionStores_Forgets(p, s) ==
  /\ SessGoto(p, s, "store", IF loaded[p][s].kind = "err" THEN "run" ELSE "over")
  /\ count' = [count EXCEPT ![p][loaded[p][s].kind] = loaded[p][s].was + 1]
  /\ loaded' = [loaded EXCEPT ![p][s] = NoLoad[s]]
  /\ UNCHANGED <<main, lines, mutex, closed, handler, pidfile, overlap>>

(* A session that fails is counted by the state it fails in, and goes on to *)
(* its end; where its connection turns out to be lost, and the answer that  *)
(* says it has failed with it, it is counted once more.                     *)
SessionStores(p, s) ==
  LET more == loaded[p][s].kind = "err" /\ ~loaded[p][s].bad
  IN  /\ SessGoto(p, s, "store", IF more THEN "run" ELSE "over")
      /\ count' = [count EXCEPT ![p][loaded[p][s].kind] = loaded[p][s].was + 1]
      /\ loaded' = [loaded EXCEPT ![p][s] = [NoLoad[s] EXCEPT !.bad = more]]
      /\ UNCHANGED <<main, lines, mutex, closed, handler, pidfile, overlap>>

(* It has been counted                                                     *)
SessionEnds(p, s) ==
  /\ SessGoto(p, s, "run", "over")
  /\ loaded[p][s].bad
  /\ loaded' = [loaded EXCEPT ![p][s] = NoLoad[s]]
  /\ UNCHANGED <<main, lines, mutex, closed, count, handler, pidfile, overlap>>

-----------------------------------------------------------------------------
(* Signals *)

(* A signal kills a process that has no handler for it yet, and else runs   *)
(* one on any of its threads where no handler for the same signal runs.    *)
(* SIGINT and SIGTERM are handled alike: 1 is the one that comes first.    *)
(* The handler begins with remove_pid_file, whosever file it is; it tells    *)
(* of a file that cannot be opened, as with -n, where it has no name for it, *)
(* but not of one that cannot be removed.                                  *)
Signalled(p, sig) ==
  /\ Alive(p)
  /\ handler[p] = <<>> => sig = 1
  /\ Running < MaxRunning
  /\ \/ main[p] \in Startup /\ Die(p) /\ UNCHANGED <<dir, content>>
     \/ /\ main[p] \in Armed
        /\ \E t \in {Main} \cup {s \in Session : sess[p][s] \in {"run", "log", "store"}},
              pc \in {"tell", "say"} :
             /\ \A i \in On(p, t) : handler[p][i].sig # sig
             /\ handler' = [handler EXCEPT ![p] = Append(@, [on |-> t, sig |-> sig, pc |-> pc])]
             /\ IF pc = "say" THEN dir # None /\ dir' \in {None, dir} ELSE UNCHANGED dir
        /\ content' = IF dir' = None THEN None ELSE content
        /\ UNCHANGED <<main, threads, file, wrote>>

(* From the keyboard, from start-stop-daemon                               *)
Interrupt(p) ==
  /\ \E sig \in 1 .. 2 : Signalled(p, sig)
  /\ UNCHANGED overlap

(* SIGKILL, a crash                                                        *)
Crash(p) ==
  /\ Alive(p) /\ Die(p)
  /\ UNCHANGED <<dir, content, overlap>>

(* sighandler, its place                                                   *)
At(p, i, from, to) ==
  /\ Top(p, i) /\ handler[p][i].pc = from
  /\ handler' = [handler EXCEPT ![p][i].pc = to]
Self(p, i) == <<handler[p][i].on, i>>

HandlerLogs(p, i) ==
  /\ At(p, i, "tell", "telling") \/ At(p, i, "say", "saying")
  /\ Lock(p, Self(p, i))
  /\ UNCHANGED <<main, sess, lines, closed, loaded, count, pidfile, overlap>>

(* Fault: logit returns without unlocking                                  *)
HandlerLogged_KeepsLock(p, i) ==
  /\ At(p, i, "telling", "say") \/ At(p, i, "saying", "end")
  /\ UNCHANGED <<main, threads, pidfile, overlap>>

HandlerLogged(p, i) ==
  /\ At(p, i, "telling", "say") \/ At(p, i, "saying", "end")
  /\ Unlock(p, Self(p, i))
  /\ UNCHANGED <<main, sess, lines, closed, loaded, count, pidfile, overlap>>

(* Fault: log_end leaves the mutex as the other functions do               *)
LogEnd_Unlocks(p, i) ==
  /\ At(p, i, "end", "exit")
  /\ mutex[p] = Free
  /\ closed' = [closed EXCEPT ![p] = TRUE]
  /\ UNCHANGED <<main, sess, lines, mutex, loaded, count, pidfile, overlap>>

(* log_end: the mutex is never unlocked                                    *)
LogEnd(p, i) ==
  /\ At(p, i, "end", "exit")
  /\ Lock(p, Self(p, i))
  /\ closed' = [closed EXCEPT ![p] = TRUE]
  /\ UNCHANGED <<main, sess, lines, loaded, count, pidfile, overlap>>

Exit(p, i) ==
  /\ Top(p, i) /\ handler[p][i].pc = "exit" /\ Die(p)
  /\ UNCHANGED <<dir, content, overlap>>

Handler(p, i) ==
  HandlerLogs(p, i) \/ HandlerLogged(p, i) \/ LogEnd(p, i) \/ Exit(p, i)

-----------------------------------------------------------------------------
(* retrieve_pid_file.  Of an empty file the pid is not initialised: of any   *)
(* process.                                                                *)
Retrieved == IF dir = None THEN {} ELSE IF content = None THEN Proc ELSE {content}

(* freepopsd --kill.  A signal that comes later than the pid is read is one *)
(* of Interrupt.                                                           *)
Kill ==
  /\ \E p \in Retrieved, sig \in 1 .. 2 : Signalled(p, sig)
  /\ UNCHANGED overlap

MainStep(p) ==
  \/ CreatePid(p) \/ NoPid(p) \/ WritePid(p) \/ SetSignals(p) \/ Bind(p) \/ BindFails(p)
  \/ Accept(p) \/ CountCreated(p) \/ MainLogs(p) \/ MainLogged(p)
SessionStep(p, s) ==
  \/ SessionLogs(p, s) \/ SessionLogged(p, s)
  \/ SessionLoads(p, s) \/ SessionStores(p, s) \/ SessionEnds(p, s)

Next ==
  \/ \E p \in Proc :
       \/ Start(p) \/ MainStep(p) \/ Interrupt(p) \/ Crash(p)
       \/ \E s \in Session : SessionStep(p, s)
       \/ \E i \in DOMAIN handler[p] : Handler(p, i)
  \/ Kill

(* Of the threads inside logit and the signal handlers of a process one runs *)
(* when any can                                                            *)
Logged(p, t)   == IF t = Main THEN MainLogged(p) ELSE SessionLogged(p, t)
Handles(p, t)  == \E i \in On(p, t) : Handler(p, i)
Fairness == \A p \in Proc : WF_vars(\E t \in Thread : Logged(p, t) \/ Handles(p, t))

Spec     == Init /\ [][Next]_vars
FairSpec == Spec /\ Fairness

-----------------------------------------------------------------------------
(* No line is written to a log that log_end has closed, by whichever thread *)
(* or handler: log_end keeps the mutex                                     *)
NoLineAfterEnd ==
  \A p \in Proc : closed[p] /\ Alive(p) =>
    \A who \in InLog(p) : who[2] > 0 /\ handler[p][who[2]].pc = "exit"

(* Of daemons that run one after another, however each ended and whether or *)
(* not it had a pid file, the file names the one that serves, if this one    *)
(* could write its pid, until it gets a signal: --kill finds it             *)
KillFindsIt ==
  ~overlap => \A p \in Proc :
    main[p] \in Serving /\ wrote[p] /\ handler[p] = <<>> => Retrieved = {p}

(* A handler that waits for a mutex the code it has interrupted holds       *)
Stuck(p) ==
  /\ Alive(p)
  /\ \E i \in DOMAIN handler[p] :
       /\ handler[p][i].pc \notin Inside
       /\ mutex[p] \in {<<handler[p][i].on, j>> : j \in 0 .. i - 1}

(* A signal ends the daemon, whatever its threads are doing, but in one     *)
(* case: it interrupts the thread that is inside logit or log_end          *)
SignalEnds ==
  \A p \in Proc : handler[p] # <<>> ~> (~Alive(p) \/ Stuck(p))

(* The statistics may lose a session that ends while another one is being   *)
(* counted, and never count one as good and as bad, as good twice or as bad *)
(* three times: good ones for two, they are at most twice the sessions that *)
(* began, the one that has not been counted yet included                   *)
Books ==
  \A p \in Proc : Alive(p) =>
    2 * count[p].ok + count[p].err <= 2 * (count[p].created + IF main[p] = "count" THEN 1 ELSE 0)
=============================================================================
