---------------------------- MODULE Daemon_proofs ----------------------------
(***************************************************************************)
(* What holds of the daemons that share a pid file, and of the log and the *)
(* statistics of each of them, for any number of processes, sessions and   *)
(* signals: DaemonInv relates, for each process, who is inside the log to  *)
(* the log's mutex, the signal handlers to what they have closed, and the  *)
(* counters to the sessions; and as long as no two daemons have overlapped *)
(* what the pid file holds to where its writer is.                         *)
(***************************************************************************)
EXTENDS Daemon, FiniteSetTheorems, TLAPS

(* What is put in the state of one process, of one of its sessions, of     *)
(* its counters or of one of its handlers leaves the whole in its type     *)
LEMMA Put ==
  ASSUME NEW S, NEW f \in [Proc -> S], NEW p \in Proc, NEW x \in S
  PROVE  [f EXCEPT ![p] = x] \in [Proc -> S]
OBVIOUS

LEMMA PutOfSession ==
  ASSUME NEW S, NEW f \in [Proc -> [Session -> S]], NEW p \in Proc, NEW s \in Session, NEW x \in S
  PROVE  [f EXCEPT ![p][s] = x] \in [Proc -> [Session -> S]]
OBVIOUS

LEMMA PutCounter ==
  ASSUME NEW c \in Counters, NEW n \in Nat
  PROVE  /\ [c EXCEPT !.created = n] \in Counters
         /\ \A k \in Kind : [c EXCEPT ![k] = n] \in Counters
<1>1. [c EXCEPT !.created = n] \in Counters
  BY DEF Counters
<1>2. [c EXCEPT !["ok"] = n] \in Counters
  BY DEF Counters
<1>3. [c EXCEPT !["err"] = n] \in Counters
  BY DEF Counters
<1> QED
  BY <1>1, <1>2, <1>3 DEF Kind

LEMMA PcSeq ==
  ASSUME NEW f \in [Proc -> Seq(HandlerState)], NEW p \in Proc, NEW i \in DOMAIN f[p],
         NEW to \in {"tell", "telling", "say", "saying", "end", "exit"}
  PROVE  [f EXCEPT ![p][i].pc = to] \in [Proc -> Seq(HandlerState)]
<1> DEFINE g == f[p]
           h == [g[i] EXCEPT !.pc = to]
<1>1. g \in Seq(HandlerState) /\ i \in 1 .. Len(g) /\ g[i] \in HandlerState
  OBVIOUS
<1>2. h \in HandlerState
  BY <1>1 DEF HandlerState, Inside
<1> HIDE DEF g, h
<1>3. [g EXCEPT ![i] = h] \in Seq(HandlerState)
  BY <1>1, <1>2
<1> QED
  BY <1>3 DEF g, h

(* The types hold at the start                                             *)
LEMMA TypeInit == Init => Types
<1> SUFFICES ASSUME Init PROVE Types
  OBVIOUS
<1> USE DEF Init
<1>1. main \in [Proc -> Place]
  BY DEF Place
<1>2. sess \in [Proc -> [Session -> SessionPlace]]
  BY DEF NoSession, SessionPlace
<1>3. mutex \in [Proc -> Holder]
  BY DEF Free, Holder
<1>4. handler \in [Proc -> Seq(HandlerState)]
  OBVIOUS
<1>5. loaded \in [Proc -> [Session -> Load]]
  BY DEF NoLoad, Load, Kind
<1>6. count \in [Proc -> Counters]
  BY DEF NoCount, Counters
<1>7. lines \in [Proc -> 0 .. MaxLines]
  BY Bounds
<1> QED
  BY <1>1, <1>2, <1>3, <1>4, <1>5, <1>6, <1>7 DEF Types

(* What a process does, the signal of --kill included                      *)
Step(p) ==
  \/ Start(p) \/ MainStep(p) \/ Interrupt(p) \/ Crash(p)
  \/ \E s \in Session : SessionStep(p, s)
  \/ \E i \in DOMAIN handler[p] : Handler(p, i)

(* Every step is one of some process, the signal that --kill sends         *)
(* included                                                                *)
LEMMA NextIsAStep == Types /\ Next => \E p \in Proc : Step(p)
<1> SUFFICES ASSUME Types, Kill PROVE \E p \in Proc : Interrupt(p)
  BY DEF Next, Step
<1>1. Retrieved \subseteq Proc
  BY DEF Retrieved, Types
<1> QED
  BY <1>1 DEF Kill, Interrupt

(* A process that ends, in whatever way, leaves the types alone            *)
LEMMA DieTypes ==
  ASSUME NEW p \in Proc, Types, Die(p), dir' \in Proc \cup {None},
         content' = content, overlap' = overlap
  PROVE  Types'
<1> USE DEF Die, Types
<1>1. main' \in [Proc -> Place]
  BY DEF Place
<1>2. sess' \in [Proc -> [Session -> SessionPlace]]
  BY DEF NoSession, SessionPlace
<1>3. mutex' \in [Proc -> Holder] /\ closed' \in [Proc -> BOOLEAN]
  BY DEF Free, Holder
<1>4. handler' \in [Proc -> Seq(HandlerState)]
  OBVIOUS
<1>5. loaded' \in [Proc -> [Session -> Load]]
  BY DEF NoLoad, Load, Kind
<1>6. count' \in [Proc -> Counters]
  BY DEF NoCount, Counters
<1>7. /\ lines' \in [Proc -> 0 .. MaxLines] /\ file' \in [Proc -> Proc \cup {None}]
      /\ wrote' \in [Proc -> BOOLEAN]
  BY Bounds
<1> QED
  BY <1>1, <1>2, <1>3, <1>4, <1>5, <1>6, <1>7

(* A signal that has a handler                                             *)
Handled(p, t, sig, pc) ==
  /\ main[p] \in Armed
  /\ handler' = [handler EXCEPT ![p] = Append(@, [on |-> t, sig |-> sig, pc |-> pc])]
  /\ dir' \in {None, dir} /\ content' = IF dir' = None THEN None ELSE content
  /\ UNCHANGED <<main, threads, file, wrote>>

(* A signal ends a process that has not set its handlers, and starts one on *)
(* a thread of any other                                                   *)
LEMMA SignalledParts ==
  ASSUME NEW p \in Proc, NEW sig, Signalled(p, sig)
  PROVE  /\ Alive(p)
         /\ \/ main[p] \in Startup /\ Die(p) /\ UNCHANGED <<dir, content>>
            \/ \E t \in Thread, pc \in {"tell", "say"} : Handled(p, t, sig, pc)
<1>1. CASE main[p] \in Startup /\ Die(p) /\ UNCHANGED <<dir, content>>
  BY <1>1 DEF Signalled
<1>2. ASSUME ~(main[p] \in Startup /\ Die(p) /\ UNCHANGED <<dir, content>>)
      PROVE  Alive(p) /\ \E t \in Thread, pc \in {"tell", "say"} : Handled(p, t, sig, pc)
  BY <1>2 DEF Signalled, Handled, Thread
<1> QED
  BY <1>1, <1>2

(* So does every step                                                      *)
LEMMA TypeNext ==
  ASSUME NEW p \in Proc, Types, Step(p)
  PROVE  Types'
<1>1. /\ main \in [Proc -> Place]
      /\ \A v \in Place : [main EXCEPT ![p] = v] \in [Proc -> Place]
  BY DEF Types
<1>2. /\ sess \in [Proc -> [Session -> SessionPlace]]
      /\ \A s \in Session, v \in SessionPlace :
           [sess EXCEPT ![p][s] = v] \in [Proc -> [Session -> SessionPlace]]
  BY DEF Types
<1>3. /\ mutex \in [Proc -> Holder] /\ Free \in Holder
      /\ \A v \in Holder : [mutex EXCEPT ![p] = v] \in [Proc -> Holder]
  BY DEF Types, Free, Holder
<1>4. /\ handler \in [Proc -> Seq(HandlerState)]
      /\ \A v \in HandlerState :
           [handler EXCEPT ![p] = Append(@, v)] \in [Proc -> Seq(HandlerState)]
  BY DEF Types
<1>5. /\ file \in [Proc -> Proc \cup {None}] /\ dir \in Proc \cup {None}
      /\ \A v \in Proc \cup {None} : [file EXCEPT ![p] = v] \in [Proc -> Proc \cup {None}]
  BY DEF Types
<1>6. /\ count \in [Proc -> Counters] /\ count[p] \in Counters
      /\ \A c \in Counters : [count EXCEPT ![p] = c] \in [Proc -> Counters]
  BY DEF Types
<1>7. ASSUME lines[p] < MaxLines
      PROVE  [lines EXCEPT ![p] = @ + 1] \in [Proc -> 0 .. MaxLines]
  BY <1>7, Bounds DEF Types
<1>8. /\ loaded \in [Proc -> [Session -> Load]]
      /\ \A s \in Session, v \in Load :
           [loaded EXCEPT ![p][s] = v] \in [Proc -> [Session -> Load]]
  BY DEF Types
<1>9. \A s \in Session : <<s, 0>> \in Holder
  BY DEF Holder, Thread
<1>10. <<Main, 0>> \in Holder
  BY DEF Holder, Thread
<1>11. ASSUME NEW from, NEW to, Goto(p, from, to), to \in Place PROVE main' \in [Proc -> Place]
  BY <1>1, <1>11 DEF Goto
<1>12. CASE Start(p)
  <2>1. "create" \in Place
    BY DEF Place, Startup
  <2> QED
    BY <1>1, <1>12, <2>1 DEF Types, Start, threads, pidfile
<1>13. CASE CreatePid(p) \/ NoPid(p) \/ WritePid(p) \/ SetSignals(p) \/ Bind(p)
  <2>1. {"say", "signals", "bind", "accept"} \subseteq Place
    BY DEF Place, Startup, Armed
  <2>2. main' \in [Proc -> Place]
    BY <1>11, <1>13, <2>1 DEF CreatePid, NoPid, WritePid, SetSignals, Bind
  <2>3. dir' \in Proc \cup {None} /\ content' \in Proc \cup {None}
    BY <1>13 DEF Types, CreatePid, NoPid, WritePid, SetSignals, Bind, pidfile
  <2>4. file' \in [Proc -> Proc \cup {None}]
    BY <1>5, <1>13, <2>3 DEF CreatePid, NoPid, WritePid, SetSignals, Bind, pidfile
  <2>5. wrote' \in [Proc -> BOOLEAN]
    BY <1>13, Put DEF Types, CreatePid, NoPid, WritePid, SetSignals, Bind, pidfile
  <2> QED
    BY <1>13, <2>2, <2>3, <2>4, <2>5
    DEF Types, CreatePid, NoPid, WritePid, SetSignals, Bind, threads, pidfile
<1>14. CASE BindFails(p) \/ Crash(p)
  BY <1>14, DieTypes DEF BindFails, Crash, Types
<1>15. CASE Accept(p)
  <2>1. "count" \in Place /\ "run" \in SessionPlace
    BY DEF Place, Armed, SessionPlace
  <2>2. main' \in [Proc -> Place] /\ sess' \in [Proc -> [Session -> SessionPlace]]
    BY <1>2, <1>11, <1>15, <2>1 DEF Accept
  <2> QED
    BY <1>15, <2>2 DEF Types, Accept, pidfile
<1>16. CASE CountCreated(p)
  <2>1. "accept" \in Place /\ count[p].created + 1 \in Nat
    BY <1>6 DEF Place, Armed, Counters
  <2>2. main' \in [Proc -> Place]
    BY <1>11, <1>16, <2>1 DEF CountCreated
  <2>3. count' \in [Proc -> Counters]
    BY <1>6, <1>16, <2>1, PutCounter DEF CountCreated
  <2> QED
    BY <1>16, <2>2, <2>3 DEF Types, CountCreated, pidfile
<1>17. CASE MainLogs(p)
  <2>1. {"saying", "refuse"} \subseteq Place
    BY DEF Place, Startup, Armed
  <2>2. main' \in [Proc -> Place] /\ mutex' \in [Proc -> Holder]
    BY <1>3, <1>10, <1>11, <1>17, <2>1 DEF MainLogs, Lock
  <2>3. lines' \in [Proc -> 0 .. MaxLines]
    BY <1>7, <1>17 DEF Types, MainLogs
  <2> QED
    BY <1>17, <2>2, <2>3 DEF Types, MainLogs, pidfile
<1>18. CASE MainLogged(p)
  <2>1. {"write", "signals", "accept"} \subseteq Place
    BY DEF Place, Startup, Armed
  <2>2. main' \in [Proc -> Place] /\ mutex' \in [Proc -> Holder]
    BY <1>3, <1>11, <1>18, <2>1 DEF MainLogged, Unlock
  <2> QED
    BY <1>18, <2>2 DEF Types, MainLogged, pidfile
<1>19. CASE Interrupt(p)
  <2>1. PICK sig \in 1 .. 2 : Signalled(p, sig)
    BY <1>19 DEF Interrupt
  <2>2. overlap' = overlap
    BY <1>19 DEF Interrupt
  <2>3. CASE main[p] \in Startup /\ Die(p) /\ UNCHANGED <<dir, content>>
    BY <2>2, <2>3, DieTypes DEF Types
  <2>4. ASSUME NEW t \in Thread, NEW pc \in {"tell", "say"}, Handled(p, t, sig, pc) PROVE Types'
    <3>1. [on |-> t, sig |-> sig, pc |-> pc] \in HandlerState
      BY <2>4 DEF HandlerState
    <3>2. handler' \in [Proc -> Seq(HandlerState)]
      BY <1>4, <2>4, <3>1 DEF Handled
    <3>3. dir' \in Proc \cup {None} /\ content' \in Proc \cup {None}
      BY <2>4 DEF Types, Handled
    <3> QED
      BY <2>2, <2>4, <3>2, <3>3 DEF Types, Handled, threads
  <2> QED
    BY <2>1, <2>3, <2>4, SignalledParts
<1>20. ASSUME NEW s \in Session, SessionStep(p, s) PROVE Types'
  <2>1. sess' \in [Proc -> [Session -> SessionPlace]]
    BY <1>2, <1>20
    DEF SessionStep, SessionLogs, SessionLogged, SessionLoads, SessionStores, SessionEnds, SessGoto,
        SessionPlace
  <2>2. CASE SessionLogs(p, s)
    <3>1. mutex' \in [Proc -> Holder] /\ lines' \in [Proc -> 0 .. MaxLines]
      BY <1>3, <1>7, <1>9, <2>2 DEF SessionLogs, Lock
    <3> QED
      BY <2>1, <2>2, <3>1 DEF Types, SessionLogs, pidfile
  <2>3. CASE SessionLogged(p, s)
    <3>1. mutex' \in [Proc -> Holder]
      BY <1>3, <2>3 DEF SessionLogged, Unlock
    <3> QED
      BY <2>1, <2>3, <3>1 DEF Types, SessionLogged, pidfile
  <2>4. CASE SessionLoads(p, s)
    <3>1. PICK k \in Kind :
             loaded' = [loaded EXCEPT ![p][s] = [kind |-> k, was |-> count[p][k], bad |-> @.bad]]
      BY <2>4 DEF SessionLoads, Kind
    <3>2. loaded[p][s] \in Load /\ count[p][k] \in Nat
      BY <1>6, <1>8 DEF Kind, Counters
    <3>3. [kind |-> k, was |-> count[p][k], bad |-> loaded[p][s].bad] \in Load
      BY <3>2 DEF Load
    <3>4. loaded' \in [Proc -> [Session -> Load]]
      BY <1>8, <3>1, <3>3
    <3> QED
      BY <2>1, <2>4, <3>4 DEF Types, SessionLoads, pidfile
  <2>5. CASE SessionStores(p, s)
    <3>1. loaded[p][s].kind \in Kind /\ loaded[p][s].was + 1 \in Nat
      BY <1>8 DEF Load
    <3>2. count' \in [Proc -> Counters]
      BY <1>6, <2>5, <3>1, PutCounter DEF SessionStores
    <3>3. \A more \in BOOLEAN : [NoLoad[s] EXCEPT !.bad = more] \in Load
      BY DEF Load, NoLoad, Kind
    <3>4. loaded' \in [Proc -> [Session -> Load]]
      BY <1>8, <2>5, <3>3 DEF SessionStores
    <3> QED
      BY <2>1, <2>5, <3>2, <3>4 DEF Types, SessionStores, pidfile
  <2>6. CASE SessionEnds(p, s)
    <3>1. NoLoad[s] \in Load
      BY DEF Load, NoLoad, Kind
    <3>2. loaded' \in [Proc -> [Session -> Load]]
      BY <1>8, <2>6, <3>1 DEF SessionEnds
    <3> QED
      BY <2>1, <2>6, <3>2 DEF Types, SessionEnds, pidfile
  <2> QED
    BY <1>20, <2>2, <2>3, <2>4, <2>5, <2>6 DEF SessionStep
<1>21. ASSUME NEW i \in DOMAIN handler[p], Handler(p, i) PROVE Types'
  <2>1. CASE Exit(p, i)
    BY <2>1, DieTypes DEF Exit, Types
  <2>2. CASE HandlerLogs(p, i) \/ HandlerLogged(p, i) \/ LogEnd(p, i)
    <3>1. handler' \in [Proc -> Seq(HandlerState)]
      <4>1. \A to \in {"tell", "telling", "say", "saying", "end", "exit"} :
              [handler EXCEPT ![p][i].pc = to] \in [Proc -> Seq(HandlerState)]
        BY <1>4, PcSeq
      <4> QED
        BY <2>2, <4>1 DEF HandlerLogs, HandlerLogged, LogEnd, At
    <3>2. Self(p, i) \in Holder
      <4>1. handler[p] \in Seq(HandlerState) /\ i \in DOMAIN handler[p]
        BY <1>4
      <4>2. handler[p][i] \in HandlerState /\ i \in Nat
        BY <4>1
      <4> QED
        BY <4>2 DEF HandlerState, Self, Holder
    <3>3. mutex' \in [Proc -> Holder]
      BY <1>3, <2>2, <3>2 DEF HandlerLogs, HandlerLogged, LogEnd, Lock, Unlock
    <3>4. closed' \in [Proc -> BOOLEAN]
      BY <2>2 DEF Types, HandlerLogs, HandlerLogged, LogEnd
    <3> QED
      BY <2>2, <3>1, <3>3, <3>4 DEF Types, HandlerLogs, HandlerLogged, LogEnd, pidfile
  <2> QED
    BY <1>21, <2>1, <2>2 DEF Handler
<1> QED
  BY <1>12, <1>13, <1>14, <1>15, <1>16, <1>17, <1>18, <1>19, <1>20, <1>21 DEF Step, MainStep

-----------------------------------------------------------------------------
(* Of another process nothing changes but the pid file                      *)

Same(q) ==
  /\ main'[q] = main[q] /\ sess'[q] = sess[q] /\ mutex'[q] = mutex[q]
  /\ closed'[q] = closed[q] /\ handler'[q] = handler[q]
  /\ loaded'[q] = loaded[q] /\ count'[q] = count[q]
  /\ file'[q] = file[q] /\ wrote'[q] = wrote[q]

(* A step of one process is none of another                                *)
LEMMA OthersAreSame ==
  ASSUME NEW p \in Proc, NEW q \in Proc, p # q, Types, Step(p)
  PROVE  Same(q)
<1> USE DEF Same, threads, pidfile
<1>1. CASE Start(p)
  BY <1>1 DEF Start, Types
<1>2. CASE CreatePid(p) \/ NoPid(p) \/ WritePid(p) \/ SetSignals(p) \/ Bind(p)
  BY <1>2 DEF CreatePid, NoPid, WritePid, SetSignals, Bind, Goto, Types
<1>3. ASSUME Die(p) PROVE Same(q)
  BY <1>3 DEF Die, Types
<1>4. CASE BindFails(p) \/ Crash(p)
  BY <1>3, <1>4 DEF BindFails, Crash
<1>5. CASE Accept(p) \/ CountCreated(p)
  BY <1>5 DEF Accept, CountCreated, Goto, Types
<1>6. CASE MainLogs(p) \/ MainLogged(p)
  BY <1>6 DEF MainLogs, MainLogged, Goto, Lock, Unlock, Types
<1>7. CASE Interrupt(p)
  BY <1>3, <1>7, SignalledParts DEF Interrupt, Handled, Types
<1>8. ASSUME NEW s \in Session, SessionStep(p, s) PROVE Same(q)
  BY <1>8
  DEF SessionStep, SessionLogs, SessionLogged, SessionLoads, SessionStores, SessionEnds, SessGoto,
      Lock, Unlock, Types
<1>9. ASSUME NEW i \in DOMAIN handler[p], Handler(p, i) PROVE Same(q)
  BY <1>3, <1>9 DEF Handler, HandlerLogs, HandlerLogged, LogEnd, Exit, At, Lock, Unlock, Types
<1> QED
  BY <1>1, <1>2, <1>4, <1>5, <1>6, <1>7, <1>8, <1>9 DEF Step, MainStep

-----------------------------------------------------------------------------
(* Of a handler that goes on only its place changes, and of no other one     *)
LEMMA HandlerMoves ==
  ASSUME NEW p \in Proc, Types, NEW i \in DOMAIN handler[p], NEW from, NEW to, At(p, i, from, to)
  PROVE  /\ DOMAIN handler'[p] = DOMAIN handler[p]
         /\ handler[p][i].pc = from /\ handler'[p][i].pc = to
         /\ \A j \in DOMAIN handler[p] : handler'[p][j].on = handler[p][j].on
         /\ \A j \in DOMAIN handler[p] : j # i => handler'[p][j] = handler[p][j]
<1>1. handler \in [Proc -> Seq(HandlerState)]
  BY DEF Types
<1>2. handler[p] \in Seq(HandlerState) /\ handler[p][i] \in HandlerState
  BY <1>1
<1>3. handler'[p] = [handler[p] EXCEPT ![i].pc = to]
  BY <1>1 DEF At
<1> QED
  BY <1>2, <1>3 DEF At, HandlerState

-----------------------------------------------------------------------------
(* The mutex *)

(* It is held by the one that is inside, of a process that has ended too    *)
MutexHeld(p) == InLog(p) = {mutex[p]} \ {Free}

(* What a step may do: nothing, lock, unlock, end the process               *)
Stays(p)       == InLog(p)' = InLog(p) /\ mutex'[p] = mutex[p]
Enters(p, who) == /\ InLog(p)' = InLog(p) \cup {who}
                  /\ mutex[p] = Free /\ mutex'[p] = who /\ who # Free
Leaves(p, who) == InLog(p)' = InLog(p) \ {who} /\ mutex[p] = who /\ mutex'[p] = Free
Clears(p)      == InLog(p)' = {} /\ mutex'[p] = Free

(* A process that ends leaves its log unlocked, and one that takes no      *)
(* step leaves it as it is                                                 *)
LEMMA DieClears == ASSUME NEW p \in Proc, Types, Die(p) PROVE Clears(p)
BY DEF Types, Die, Clears, InLog, NoSession, Free

LEMMA SameStays == ASSUME NEW q \in Proc, Same(q) PROVE Stays(q)
BY DEF Same, Stays, InLog

(* The three who may be inside: main, a session, a handler                  *)
MainIn(p)    == IF main[p] \in {"saying", "refuse"} THEN {<<Main, 0>>} ELSE {}
SessionIn(p) == {<<t, 0>> : t \in {s \in Session : sess[p][s] = "log"}}
HandlerIn(p) == {<<handler[p][i].on, i>> :
                   i \in {j \in DOMAIN handler[p] : handler[p][j].pc \in Inside}}

(* Whoever is inside is the main thread, a session or a handler            *)
LEMMA InLogParts ==
  /\ \A p : InLog(p) = MainIn(p) \cup SessionIn(p) \cup HandlerIn(p)
  /\ \A p : InLog(p)' = MainIn(p)' \cup SessionIn(p)' \cup HandlerIn(p)'
BY DEF InLog, MainIn, SessionIn, HandlerIn

(* A step enters the log when it is free, leaves it when inside, or does   *)
(* neither                                                                 *)
LEMMA LogStep ==
  ASSUME NEW p \in Proc, Types, Step(p)
  PROVE  Stays(p) \/ Clears(p) \/ \E who : Enters(p, who) \/ Leaves(p, who)
<1>1. main \in [Proc -> Place] /\ sess \in [Proc -> [Session -> SessionPlace]]
  BY DEF Types
<1>2. mutex \in [Proc -> Holder] /\ handler \in [Proc -> Seq(HandlerState)]
  BY DEF Types
<1>3. handler[p] \in Seq(HandlerState)
  BY <1>2
<1>4. <<Main, 0>> # Free /\ \A s \in Session : <<s, 0>> # Free /\ <<s, 0>> # <<Main, 0>>
  BY Names DEF Free, Session
<1>5. ASSUME NEW from, NEW to, Goto(p, from, to), {from, to} \cap {"saying", "refuse"} = {},
             sess'[p] = sess[p], handler'[p] = handler[p], mutex'[p] = mutex[p]
      PROVE  Stays(p)
  BY <1>1, <1>5 DEF Goto, Stays, InLog
<1>6. CASE Start(p)
  BY <1>1, <1>6 DEF Start, threads, Stays, InLog
<1>7. CASE CreatePid(p) \/ NoPid(p) \/ WritePid(p) \/ SetSignals(p) \/ Bind(p) \/ CountCreated(p)
  BY <1>5, <1>7 DEF CreatePid, NoPid, WritePid, SetSignals, Bind, CountCreated, threads
<1>8. CASE BindFails(p) \/ Crash(p)
  BY <1>8, DieClears DEF BindFails, Crash
<1>9. CASE Accept(p)
  <2>1. MainIn(p)' = MainIn(p)
    BY <1>1, <1>9 DEF Accept, Goto, MainIn
  <2>2. SessionIn(p)' = SessionIn(p)
    BY <1>1, <1>9 DEF Accept, SessionIn
  <2>3. HandlerIn(p)' = HandlerIn(p) /\ mutex'[p] = mutex[p]
    BY <1>9 DEF Accept, HandlerIn
  <2> QED
    BY <2>1, <2>2, <2>3, InLogParts DEF Stays
<1>10. CASE MainLogs(p)
  <2>1. MainIn(p)' = {<<Main, 0>>} /\ MainIn(p) = {}
    BY <1>1, <1>10 DEF MainLogs, Goto, MainIn
  <2>2. SessionIn(p)' = SessionIn(p) /\ HandlerIn(p)' = HandlerIn(p)
    BY <1>10 DEF MainLogs, SessionIn, HandlerIn
  <2>3. mutex[p] = Free /\ mutex'[p] = <<Main, 0>>
    BY <1>2, <1>10 DEF MainLogs, Lock
  <2> QED
    BY <1>4, <2>1, <2>2, <2>3, InLogParts DEF Enters
<1>11. CASE MainLogged(p)
  <2>1. MainIn(p)' = {} /\ MainIn(p) = {<<Main, 0>>}
    BY <1>1, <1>11 DEF MainLogged, Goto, MainIn
  <2>2. SessionIn(p)' = SessionIn(p) /\ HandlerIn(p)' = HandlerIn(p)
    BY <1>11 DEF MainLogged, SessionIn, HandlerIn
  <2>3. <<Main, 0>> \notin SessionIn(p) \cup HandlerIn(p)
    BY <1>3, <1>4 DEF SessionIn, HandlerIn
  <2>4. mutex[p] = <<Main, 0>> /\ mutex'[p] = Free
    BY <1>2, <1>11 DEF MainLogged, Unlock
  <2> QED
    BY <2>1, <2>2, <2>3, <2>4, InLogParts DEF Leaves
<1>12. CASE Interrupt(p)
  <2>1. PICK sig \in 1 .. 2 : Signalled(p, sig)
    BY <1>12 DEF Interrupt
  <2>2. CASE Die(p)
    BY <2>2, DieClears
  <2>3. ASSUME NEW t \in Thread, NEW pc \in {"tell", "say"}, Handled(p, t, sig, pc) PROVE Stays(p)
    <3>1. MainIn(p)' = MainIn(p) /\ SessionIn(p)' = SessionIn(p) /\ mutex' = mutex
      BY <2>3 DEF Handled, threads, MainIn, SessionIn
    <3>2. handler'[p] = Append(handler[p], [on |-> t, sig |-> sig, pc |-> pc]) /\ pc \notin Inside
      BY <1>2, <2>3 DEF Handled, Inside
    <3>3. HandlerIn(p)' = HandlerIn(p)
      BY <1>3, <3>2 DEF HandlerIn
    <3> QED
      BY <3>1, <3>3, InLogParts DEF Stays
  <2> QED
    BY <2>1, <2>2, <2>3, SignalledParts
<1>13. ASSUME NEW s \in Session, SessionStep(p, s)
       PROVE  Stays(p) \/ Enters(p, <<s, 0>>) \/ Leaves(p, <<s, 0>>)
  <2>1. MainIn(p)' = MainIn(p) /\ HandlerIn(p)' = HandlerIn(p)
    BY <1>13
    DEF SessionStep, SessionLogs, SessionLogged, SessionLoads, SessionStores, SessionEnds, MainIn,
        HandlerIn
  <2>2. CASE SessionLogs(p, s)
    <3>1. SessionIn(p)' = SessionIn(p) \cup {<<s, 0>>}
      BY <1>1, <2>2 DEF SessionLogs, SessGoto, SessionIn
    <3>2. mutex[p] = Free /\ mutex'[p] = <<s, 0>>
      BY <1>2, <2>2 DEF SessionLogs, Lock
    <3> QED
      BY <1>4, <2>1, <3>1, <3>2, InLogParts DEF Enters
  <2>3. CASE SessionLogged(p, s)
    <3>1. SessionIn(p)' = SessionIn(p) \ {<<s, 0>>}
      BY <1>1, <2>3 DEF SessionLogged, SessGoto, SessionIn
    <3>2. mutex[p] = <<s, 0>> /\ mutex'[p] = Free
      BY <1>2, <2>3 DEF SessionLogged, Unlock
    <3>3. <<s, 0>> \notin MainIn(p) \cup HandlerIn(p)
      BY <1>3, <1>4 DEF MainIn, HandlerIn
    <3> QED
      BY <2>1, <3>1, <3>2, <3>3, InLogParts DEF Leaves
  <2>4. CASE SessionLoads(p, s) \/ SessionStores(p, s) \/ SessionEnds(p, s)
    <3>1. SessionIn(p)' = SessionIn(p)
      BY <1>1, <2>4 DEF SessionLoads, SessionStores, SessionEnds, SessGoto, SessionIn
    <3> QED
      BY <2>1, <2>4, <3>1, InLogParts DEF Stays, SessionLoads, SessionStores, SessionEnds
  <2> QED
    BY <1>13, <2>2, <2>3, <2>4 DEF SessionStep
<1>14. ASSUME NEW i \in DOMAIN handler[p], Handler(p, i)
       PROVE  Clears(p) \/ Enters(p, Self(p, i)) \/ Leaves(p, Self(p, i))
  <2>1. CASE Exit(p, i)
    BY <2>1, DieClears DEF Exit
  <2>2. i \in Nat \ {0} /\ handler[p][i] \in HandlerState
    BY <1>3
  <2>3. ASSUME NEW from, NEW to, At(p, i, from, to)
        PROVE  /\ DOMAIN handler'[p] = DOMAIN handler[p]
               /\ handler[p][i].pc = from /\ handler'[p][i].pc = to
               /\ \A j \in DOMAIN handler[p] : handler'[p][j].on = handler[p][j].on
               /\ \A j \in DOMAIN handler[p] : j # i => handler'[p][j] = handler[p][j]
    BY <2>3, HandlerMoves
  <2>4. Self(p, i) # Free
    BY <2>2 DEF Self, Free
  <2>5. CASE HandlerLogs(p, i) \/ LogEnd(p, i)
    <3>1. MainIn(p)' = MainIn(p) /\ SessionIn(p)' = SessionIn(p)
      BY <2>5 DEF HandlerLogs, LogEnd, MainIn, SessionIn
    <3>2. HandlerIn(p)' = HandlerIn(p) \cup {Self(p, i)}
      <4>1. PICK from \in {"tell", "say", "end"}, to \in Inside : At(p, i, from, to)
        BY <2>5 DEF HandlerLogs, LogEnd, Inside
      <4>2. from \notin Inside
        BY <4>1 DEF Inside
      <4> QED
        BY <2>3, <4>1, <4>2 DEF HandlerIn, Self
    <3>3. mutex[p] = Free /\ mutex'[p] = Self(p, i)
      BY <1>2, <2>5 DEF HandlerLogs, LogEnd, Lock
    <3> QED
      BY <2>4, <3>1, <3>2, <3>3, InLogParts DEF Enters
  <2>6. CASE HandlerLogged(p, i)
    <3>1. MainIn(p)' = MainIn(p) /\ SessionIn(p)' = SessionIn(p)
      BY <2>6 DEF HandlerLogged, MainIn, SessionIn
    <3>2. HandlerIn(p)' = HandlerIn(p) \ {Self(p, i)}
      <4>1. PICK from \in Inside, to \in {"say", "end"} : At(p, i, from, to)
        BY <2>6 DEF HandlerLogged, Inside
      <4>2. to \notin Inside
        BY <4>1 DEF Inside
      <4> QED
        BY <2>3, <4>1, <4>2 DEF HandlerIn, Self
    <3>3. mutex[p] = Self(p, i) /\ mutex'[p] = Free
      BY <1>2, <2>6 DEF HandlerLogged, Unlock
    <3>4. Self(p, i) \notin MainIn(p) \cup SessionIn(p)
      BY <2>2 DEF Self, MainIn, SessionIn
    <3> QED
      BY <3>1, <3>2, <3>3, <3>4, InLogParts DEF Leaves
  <2> QED
    BY <1>14, <2>1, <2>5, <2>6 DEF Handler
<1> QED
  BY <1>6, <1>7, <1>8, <1>9, <1>10, <1>11, <1>12, <1>13, <1>14 DEF Step, MainStep

(* So the mutex names the one that is inside                               *)
LEMMA MutexInit == Init => \A p \in Proc : MutexHeld(p)
BY DEF Init, MutexHeld, InLog, NoSession, Free

LEMMA MutexNext ==
  ASSUME NEW p \in Proc, NEW q \in Proc, Types, Step(p), MutexHeld(q)
  PROVE  MutexHeld(q)'
<1>1. Stays(q) \/ Clears(q) \/ \E who : Enters(q, who) \/ Leaves(q, who)
  BY LogStep, OthersAreSame, SameStays
<1>2. MutexHeld(q)' <=> InLog(q)' = {mutex'[q]} \ {Free}
  BY DEF MutexHeld, Free
<1> QED
  BY <1>1, <1>2 DEF MutexHeld, Stays, Clears, Enters, Leaves

-----------------------------------------------------------------------------
(* The log, once closed, is closed by a handler that is about to exit       *)

ClosedBy(p) == closed[p] => \E i \in DOMAIN handler[p] : handler[p][i].pc = "exit"

(* The handler that has called log_end is still there                      *)
LEMMA ClosedNext ==
  ASSUME NEW p \in Proc, NEW q \in Proc, Types, Step(p), ClosedBy(q)
  PROVE  ClosedBy(q)'
<1>1. closed \in [Proc -> BOOLEAN] /\ handler \in [Proc -> Seq(HandlerState)]
  BY DEF Types
<1>2. handler[p] \in Seq(HandlerState)
  BY <1>1
<1>3. CASE p # q
  BY <1>3, OthersAreSame DEF Same, ClosedBy
<1> SUFFICES ASSUME ClosedBy(p) PROVE ClosedBy(p)'
  BY <1>3
<1>4. ASSUME closed'[p] = closed[p], handler'[p] = handler[p] PROVE ClosedBy(p)'
  BY <1>4 DEF ClosedBy
<1>5. ASSUME Die(p) PROVE ClosedBy(p)'
  BY <1>1, <1>5 DEF Die, ClosedBy
<1>6. CASE Start(p) \/ BindFails(p) \/ Crash(p)
  BY <1>4, <1>5, <1>6 DEF Start, BindFails, Crash, threads
<1>7. CASE MainStep(p)
  BY <1>4, <1>6, <1>7
  DEF MainStep, CreatePid, NoPid, WritePid, SetSignals, Bind, Accept, CountCreated, MainLogs,
      MainLogged, threads
<1>8. CASE Interrupt(p)
  <2>1. PICK sig \in 1 .. 2 : Signalled(p, sig)
    BY <1>8 DEF Interrupt
  <2>2. ASSUME NEW t \in Thread, NEW pc \in {"tell", "say"}, Handled(p, t, sig, pc) PROVE ClosedBy(p)'
    <3>1. handler'[p] = Append(handler[p], [on |-> t, sig |-> sig, pc |-> pc]) /\ closed' = closed
      BY <1>1, <2>2 DEF Handled, threads
    <3>2. \A i \in DOMAIN handler[p] : i \in DOMAIN handler'[p] /\ handler'[p][i] = handler[p][i]
      BY <1>2, <3>1
    <3> QED
      BY <3>1, <3>2 DEF ClosedBy
  <2> QED
    BY <1>5, <2>1, <2>2, SignalledParts
<1>9. ASSUME NEW s \in Session, SessionStep(p, s) PROVE ClosedBy(p)'
  BY <1>4, <1>9
  DEF SessionStep, SessionLogs, SessionLogged, SessionLoads, SessionStores, SessionEnds
<1>10. ASSUME NEW i \in DOMAIN handler[p], Handler(p, i) PROVE ClosedBy(p)'
  <2>1. ASSUME NEW from, NEW to, At(p, i, from, to)
        PROVE  /\ DOMAIN handler'[p] = DOMAIN handler[p]
               /\ handler[p][i].pc = from /\ handler'[p][i].pc = to
               /\ \A j \in DOMAIN handler[p] : j # i => handler'[p][j] = handler[p][j]
    BY <2>1, HandlerMoves
  <2>2. CASE HandlerLogs(p, i) \/ HandlerLogged(p, i)
    BY <2>1, <2>2 DEF HandlerLogs, HandlerLogged, ClosedBy
  <2>3. CASE LogEnd(p, i)
    BY <2>1, <2>3 DEF LogEnd, ClosedBy
  <2> QED
    BY <1>5, <1>10, <2>2, <2>3 DEF Handler, Exit
<1> QED
  BY <1>6, <1>7, <1>8, <1>9, <1>10 DEF Step

-----------------------------------------------------------------------------
(* The statistics *)

Begun(p) == {s \in Session : sess[p][s] # "none"}
Over(p)  == {s \in Session : sess[p][s] = "over"}
Bad(p)   == {s \in Session : loaded[p][s].bad}
Open     == {"run", "log", "store"}

(* What the counters may say when a sessions were counted as good and b      *)
(* times one was as bad, and what a session is about to write into them    *)
CountsAtMost(p, a, b) ==
  /\ count[p].ok <= a /\ count[p].err <= b
  /\ \A s \in Session :
       sess[p][s] = "store" => loaded[p][s].was <= IF loaded[p][s].kind = "ok" THEN a ELSE b

(* A session that has been counted as bad is still there, to be counted as  *)
(* bad once more or to end                                                 *)
BadIsOpen(p) ==
  \A s \in Session : loaded[p][s].bad =>
    sess[p][s] \in Open /\ (sess[p][s] = "store" => loaded[p][s].kind = "err")

Counted(p) ==
  /\ Cardinality(Begun(p)) = count[p].created + IF main[p] = "count" THEN 1 ELSE 0
  /\ BadIsOpen(p)
  /\ \E a, b \in Nat :
       2 * a + b <= 2 * Cardinality(Over(p)) + Cardinality(Bad(p)) /\ CountsAtMost(p, a, b)

(* The sessions that have begun, are over or have been counted as bad can be *)
(* counted                                                                 *)
LEMMA SessionsFinite ==
  \A p : /\ IsFiniteSet(Begun(p)) /\ IsFiniteSet(Over(p)) /\ IsFiniteSet(Bad(p))
         /\ Cardinality(Begun(p)) \in Nat /\ Cardinality(Over(p)) \in Nat
         /\ Cardinality(Bad(p)) \in Nat
<1>1. IsFiniteSet(Session)
  <2>1. 1 \in Int /\ MaxSessions \in Int
    BY Bounds
  <2> QED BY <2>1, FS_Interval DEF Session
<1> SUFFICES ASSUME NEW p
             PROVE  /\ IsFiniteSet(Begun(p)) /\ IsFiniteSet(Over(p)) /\ IsFiniteSet(Bad(p))
                    /\ Cardinality(Begun(p)) \in Nat /\ Cardinality(Over(p)) \in Nat
                    /\ Cardinality(Bad(p)) \in Nat
  OBVIOUS
<1>2. Begun(p) \subseteq Session /\ Over(p) \subseteq Session /\ Bad(p) \subseteq Session
  BY DEF Begun, Over, Bad
<1>3. IsFiniteSet(Begun(p)) /\ IsFiniteSet(Over(p)) /\ IsFiniteSet(Bad(p))
  BY <1>1, <1>2, FS_Subset
<1> QED
  BY <1>3, FS_CardinalityType

(* Those that are over and those that have been counted as bad are others,   *)
(* and all have begun                                                      *)
LEMMA OverAndBad ==
  ASSUME NEW p, BadIsOpen(p)
  PROVE  Cardinality(Over(p)) + Cardinality(Bad(p)) <= Cardinality(Begun(p))
<1>1. Over(p) \cap Bad(p) = {} /\ Over(p) \cup Bad(p) \subseteq Begun(p)
  BY DEF BadIsOpen, Over, Bad, Begun, Open
<1>2. /\ IsFiniteSet(Over(p)) /\ IsFiniteSet(Bad(p)) /\ IsFiniteSet(Begun(p))
      /\ Cardinality(Over(p)) \in Nat /\ Cardinality(Bad(p)) \in Nat
  BY SessionsFinite
<1>3. Cardinality(Over(p) \cup Bad(p)) =
        Cardinality(Over(p)) + Cardinality(Bad(p)) - Cardinality(Over(p) \cap Bad(p))
  BY <1>2, FS_Union
<1>4. Cardinality(Over(p) \cup Bad(p)) <= Cardinality(Begun(p))
  BY <1>1, <1>2, FS_Subset
<1>5. Cardinality(Over(p) \cap Bad(p)) = 0
  BY <1>1, FS_EmptySet
<1> QED
  BY <1>2, <1>3, <1>4, <1>5

(* No session is counted before one has begun                              *)
LEMMA CountedInit == Init => \A p \in Proc : Counted(p)
<1> SUFFICES ASSUME Init, NEW p \in Proc PROVE Counted(p)
  OBVIOUS
<1>1. Begun(p) = {} /\ Over(p) = {} /\ Bad(p) = {}
  BY DEF Init, NoSession, NoLoad, Begun, Over, Bad
<1>2. CountsAtMost(p, 0, 0)
  BY DEF Init, NoSession, NoCount, CountsAtMost
<1>3. count[p].created = 0 /\ main[p] # "count"
  BY DEF Init, NoCount
<1>4. BadIsOpen(p)
  BY <1>1 DEF Bad, BadIsOpen
<1> QED
  BY <1>1, <1>2, <1>3, <1>4, FS_EmptySet DEF Counted

(* Nor by the steps of another process                                     *)
LEMMA SameCounted == ASSUME NEW q \in Proc, Same(q), Counted(q) PROVE Counted(q)'
<1>1. Begun(q)' = Begun(q) /\ Over(q)' = Over(q) /\ Bad(q)' = Bad(q)
  BY DEF Same, Begun, Over, Bad
<1>2. \A a, b \in Nat : CountsAtMost(q, a, b) => CountsAtMost(q, a, b)'
  BY DEF Same, CountsAtMost
<1>3. BadIsOpen(q) => BadIsOpen(q)'
  BY DEF Same, BadIsOpen
<1> QED
  BY <1>1, <1>2, <1>3 DEF Same, Counted

(* Loading a counter                                                       *)
LEMMA LoadsCounted ==
  ASSUME NEW p \in Proc, NEW s \in Session, Types, SessionLoads(p, s), Counted(p)
  PROVE  Counted(p)'
<1>1. sess \in [Proc -> [Session -> SessionPlace]] /\ loaded \in [Proc -> [Session -> Load]]
  BY DEF Types
<1>2. count[p] \in Counters
  BY DEF Types
<1>3. PICK k \in Kind : /\ loaded[p][s].bad => k = "err"
                        /\ loaded' = [loaded EXCEPT ![p][s] =
                                         [kind |-> k, was |-> count[p][k], bad |-> @.bad]]
  BY DEF SessionLoads, Kind
<1>4. /\ sess[p][s] = "run" /\ sess'[p][s] = "store"
      /\ \A t \in Session \ {s} : sess'[p][t] = sess[p][t]
      /\ main' = main /\ count' = count
  BY <1>1 DEF SessionLoads, SessGoto
<1>5. count[p][k] \in Nat
  BY <1>2 DEF Counters, Kind
<1>6. /\ loaded'[p][s] = [kind |-> k, was |-> count[p][k], bad |-> loaded[p][s].bad]
      /\ \A t \in Session \ {s} : loaded'[p][t] = loaded[p][t]
  BY <1>1, <1>3
<1>7. Begun(p)' = Begun(p) /\ Over(p)' = Over(p)
  BY <1>4 DEF Begun, Over
<1>8. Bad(p)' = Bad(p)
  BY <1>6 DEF Bad
<1>9. BadIsOpen(p)'
  <2> SUFFICES ASSUME NEW t \in Session, loaded'[p][t].bad
               PROVE  sess'[p][t] \in Open /\ (sess'[p][t] = "store" => loaded'[p][t].kind = "err")
    BY DEF BadIsOpen
  <2>1. CASE t = s
    <3>1. loaded[p][s].bad /\ loaded'[p][s].kind = k
      BY <1>6, <2>1
    <3> QED
      BY <1>3, <1>4, <2>1, <3>1 DEF Open
  <2>2. CASE t # s
    BY <1>4, <1>6, <2>2 DEF Counted, BadIsOpen
  <2> QED
    BY <2>1, <2>2
<1>10. ASSUME NEW a \in Nat, NEW b \in Nat, CountsAtMost(p, a, b) PROVE CountsAtMost(p, a, b)'
  <2>1. count[p][k] <= IF k = "ok" THEN a ELSE b
    BY <1>10 DEF CountsAtMost, Kind
  <2> QED
    BY <1>4, <1>6, <1>10, <2>1 DEF CountsAtMost
<1> QED
  BY <1>4, <1>7, <1>8, <1>9, <1>10 DEF Counted

(* Storing it: the session is counted, and is over or may be counted as bad  *)
(* once more                                                               *)
LEMMA StoresCounted ==
  ASSUME NEW p \in Proc, NEW s \in Session, Types, SessionStores(p, s), Counted(p)
  PROVE  Counted(p)'
<1> DEFINE k == loaded[p][s].kind
           n == loaded[p][s].was
           more == k = "err" /\ ~loaded[p][s].bad
<1>1. sess \in [Proc -> [Session -> SessionPlace]] /\ loaded \in [Proc -> [Session -> Load]]
  BY DEF Types
<1>2. /\ k \in Kind /\ n \in Nat /\ loaded[p][s].bad \in BOOLEAN
      /\ \A t \in Session : loaded[p][t].was \in Nat
  BY <1>1 DEF Load
<1>3. count \in [Proc -> Counters] /\ count[p] \in Counters
  BY DEF Types
<1>4. /\ sess[p][s] = "store" /\ sess'[p][s] = (IF more THEN "run" ELSE "over")
      /\ \A t \in Session \ {s} : sess'[p][t] = sess[p][t]
      /\ main' = main
  BY <1>1 DEF SessionStores, SessGoto
<1>5. /\ loaded'[p][s] = [NoLoad[s] EXCEPT !.bad = more]
      /\ \A t \in Session \ {s} : loaded'[p][t] = loaded[p][t]
  BY <1>1 DEF SessionStores
<1>6. loaded'[p][s].bad = more
  BY <1>5 DEF NoLoad
<1>7. count'[p] = [count[p] EXCEPT ![k] = n + 1]
  BY <1>3 DEF SessionStores
<1>8. Begun(p)' = Begun(p)
  BY <1>4 DEF Begun
<1>9. BadIsOpen(p)'
  <2> SUFFICES ASSUME NEW t \in Session, loaded'[p][t].bad
               PROVE  sess'[p][t] \in Open /\ (sess'[p][t] = "store" => loaded'[p][t].kind = "err")
    BY DEF BadIsOpen
  <2>1. CASE t = s
    BY <1>4, <1>6, <2>1 DEF Open
  <2>2. CASE t # s
    BY <1>4, <1>5, <2>2 DEF Counted, BadIsOpen
  <2> QED
    BY <2>1, <2>2
<1>10. k = "ok" => ~loaded[p][s].bad
  BY <1>4 DEF Counted, BadIsOpen
<1>11. PICK a \in Nat, b \in Nat :
          /\ 2 * a + b <= 2 * Cardinality(Over(p)) + Cardinality(Bad(p))
          /\ CountsAtMost(p, a, b)
  BY DEF Counted
<1>12. /\ Cardinality(Over(p)) \in Nat /\ Cardinality(Bad(p)) \in Nat
       /\ IsFiniteSet(Over(p)) /\ IsFiniteSet(Bad(p)) /\ s \notin Over(p)
  BY <1>4, SessionsFinite DEF Over
<1> HIDE DEF k, n, more
<1>13. n <= IF k = "ok" THEN a ELSE b
  BY <1>4, <1>11 DEF CountsAtMost, k, n
<1>14. \A t \in Session : sess'[p][t] = "store" =>
          /\ loaded'[p][t].was \in Nat
          /\ loaded'[p][t].was <= IF loaded'[p][t].kind = "ok" THEN a ELSE b
  BY <1>2, <1>4, <1>5, <1>11 DEF CountsAtMost
<1>15. CASE k = "ok"
  <2>1. /\ count'[p].created = count[p].created /\ count'[p].ok = n + 1
        /\ count'[p].err = count[p].err
    BY <1>2, <1>3, <1>7, <1>15 DEF Counters
  <2>2. CountsAtMost(p, a + 1, b)'
    BY <1>2, <1>11, <1>13, <1>14, <1>15, <2>1 DEF CountsAtMost
  <2>3. ~more
    BY <1>15 DEF more
  <2>4. Over(p)' = Over(p) \cup {s}
    BY <1>4, <2>3 DEF Over
  <2>5. Bad(p)' = Bad(p)
    BY <1>5, <1>6, <1>10, <1>15, <2>3 DEF Bad
  <2>6. Cardinality(Over(p)') = Cardinality(Over(p)) + 1
    BY <1>12, <2>4, FS_AddElement
  <2>7. 2 * (a + 1) + b <= 2 * Cardinality(Over(p)') + Cardinality(Bad(p)')
    BY <1>11, <1>12, <2>5, <2>6
  <2> QED
    BY <1>4, <1>8, <1>9, <2>1, <2>2, <2>7 DEF Counted
<1>16. CASE k = "err"
  <2>1. /\ count'[p].created = count[p].created /\ count'[p].err = n + 1
        /\ count'[p].ok = count[p].ok
    BY <1>2, <1>3, <1>7, <1>16 DEF Counters
  <2>2. CountsAtMost(p, a, b + 1)'
    BY <1>2, <1>11, <1>13, <1>14, <1>16, <2>1 DEF CountsAtMost
  <2>3. CASE loaded[p][s].bad
    <3>1. ~more
      BY <2>3 DEF more
    <3>2. Over(p)' = Over(p) \cup {s}
      BY <1>4, <3>1 DEF Over
    <3>3. Bad(p)' = Bad(p) \ {s} /\ s \in Bad(p)
      BY <1>5, <1>6, <2>3, <3>1 DEF Bad
    <3>4. Cardinality(Over(p)') = Cardinality(Over(p)) + 1
      BY <1>12, <3>2, FS_AddElement
    <3>5. Cardinality(Bad(p)') = Cardinality(Bad(p)) - 1
      BY <1>12, <3>3, FS_RemoveElement
    <3>6. 2 * a + (b + 1) <= 2 * Cardinality(Over(p)') + Cardinality(Bad(p)')
      BY <1>11, <1>12, <3>4, <3>5
    <3> QED
      BY <1>4, <1>8, <1>9, <2>1, <2>2, <3>6 DEF Counted
  <2>4. CASE ~loaded[p][s].bad
    <3>1. more
      BY <1>16, <2>4 DEF more
    <3>2. Over(p)' = Over(p)
      BY <1>4, <3>1 DEF Over
    <3>3. Bad(p)' = Bad(p) \cup {s} /\ s \notin Bad(p)
      BY <1>5, <1>6, <2>4, <3>1 DEF Bad
    <3>4. Cardinality(Bad(p)') = Cardinality(Bad(p)) + 1
      BY <1>12, <3>3, FS_AddElement
    <3>5. 2 * a + (b + 1) <= 2 * Cardinality(Over(p)') + Cardinality(Bad(p)')
      BY <1>11, <1>12, <3>2, <3>4
    <3> QED
      BY <1>4, <1>8, <1>9, <2>1, <2>2, <3>5 DEF Counted
  <2> QED
    BY <2>3, <2>4
<1> QED
  BY <1>2, <1>15, <1>16 DEF Kind, k

(* A session that has been counted as bad ends                             *)
LEMMA EndsCounted ==
  ASSUME NEW p \in Proc, NEW s \in Session, Types, SessionEnds(p, s), Counted(p)
  PROVE  Counted(p)'
<1>1. sess \in [Proc -> [Session -> SessionPlace]] /\ loaded \in [Proc -> [Session -> Load]]
  BY DEF Types
<1>2. /\ sess[p][s] = "run" /\ sess'[p][s] = "over" /\ loaded[p][s].bad
      /\ \A t \in Session \ {s} : sess'[p][t] = sess[p][t]
      /\ main' = main /\ count' = count
  BY <1>1 DEF SessionEnds, SessGoto
<1>3. ~loaded'[p][s].bad /\ \A t \in Session \ {s} : loaded'[p][t] = loaded[p][t]
  BY <1>1 DEF SessionEnds, NoLoad
<1>4. Begun(p)' = Begun(p) /\ Over(p)' = Over(p) \cup {s} /\ s \notin Over(p)
  BY <1>2 DEF Begun, Over
<1>5. Bad(p)' = Bad(p) \ {s} /\ s \in Bad(p)
  BY <1>2, <1>3 DEF Bad
<1>6. Cardinality(Over(p)') = Cardinality(Over(p)) + 1
  BY <1>4, SessionsFinite, FS_AddElement
<1>7. Cardinality(Bad(p)') = Cardinality(Bad(p)) - 1
  BY <1>5, SessionsFinite, FS_RemoveElement
<1>8. BadIsOpen(p)'
  BY <1>2, <1>3 DEF Counted, BadIsOpen
<1>9. PICK a \in Nat, b \in Nat :
         /\ 2 * a + b <= 2 * Cardinality(Over(p)) + Cardinality(Bad(p))
         /\ CountsAtMost(p, a, b)
  BY DEF Counted
<1>10. CountsAtMost(p, a, b)'
  BY <1>2, <1>3, <1>9 DEF CountsAtMost
<1>11. 2 * a + b <= 2 * Cardinality(Over(p)') + Cardinality(Bad(p)')
  BY <1>6, <1>7, <1>9, SessionsFinite
<1> QED
  BY <1>2, <1>4, <1>8, <1>10, <1>11 DEF Counted

(* A session is counted as good once or as bad at most twice, however the    *)
(* threads take their turns: an increment may be lost, never doubled       *)
LEMMA CountedNext ==
  ASSUME NEW p \in Proc, NEW q \in Proc, Types, Step(p), Counted(q)
  PROVE  Counted(q)'
<1>1. main \in [Proc -> Place] /\ sess \in [Proc -> [Session -> SessionPlace]]
  BY DEF Types
<1>2. loaded \in [Proc -> [Session -> Load]] /\ count \in [Proc -> Counters]
  BY DEF Types
<1>3. CASE p # q
  BY <1>3, OthersAreSame, SameCounted
<1> SUFFICES ASSUME Counted(p) PROVE Counted(p)'
  BY <1>3
<1>4. ASSUME main'[p] = "count" <=> main[p] = "count", Begun(p)' = Begun(p), Over(p)' = Over(p),
             \A s \in Session : sess'[p][s] = "store" => sess[p][s] = "store",
             \A s \in Session : sess[p][s] \in Open => sess'[p][s] \in Open,
             loaded'[p] = loaded[p], count'[p] = count[p]
      PROVE  Counted(p)'
  <2>1. \A a, b \in Nat : CountsAtMost(p, a, b) => CountsAtMost(p, a, b)'
    BY <1>4 DEF CountsAtMost
  <2>2. Bad(p)' = Bad(p) /\ (BadIsOpen(p) => BadIsOpen(p)')
    BY <1>4 DEF Bad, BadIsOpen
  <2> QED
    BY <1>4, <2>1, <2>2 DEF Counted
<1>5. ASSUME main'[p] = "count" <=> main[p] = "count", sess'[p] = sess[p],
             loaded'[p] = loaded[p], count'[p] = count[p]
      PROVE  Counted(p)'
  BY <1>4, <1>5 DEF Begun, Over
<1>6. ASSUME NEW from, NEW to, Goto(p, from, to), "count" \notin {from, to}
      PROVE  main'[p] = "count" <=> main[p] = "count"
  BY <1>1, <1>6 DEF Goto
<1>7. ASSUME Die(p) PROVE Counted(p)'
  <2>1. main'[p] = "gone" /\ sess'[p] = NoSession /\ count'[p] = NoCount
    BY <1>1, <1>2, <1>7 DEF Die
  <2>2. Begun(p)' = {} /\ Over(p)' = {} /\ Bad(p)' = {} /\ BadIsOpen(p)'
    BY <1>2, <1>7, <2>1 DEF Begun, Over, Bad, BadIsOpen, Die, NoSession, NoLoad
  <2>3. CountsAtMost(p, 0, 0)'
    BY <2>1 DEF NoSession, NoCount, CountsAtMost
  <2>4. count'[p].created = 0 /\ main'[p] # "count"
    BY <2>1 DEF NoCount
  <2> QED
    BY <2>2, <2>3, <2>4, FS_EmptySet DEF Counted
<1>8. CASE Start(p)
  BY <1>1, <1>5, <1>8 DEF Start, threads
<1>9. CASE CreatePid(p) \/ NoPid(p) \/ WritePid(p) \/ SetSignals(p) \/ Bind(p)
  BY <1>5, <1>6, <1>9 DEF CreatePid, NoPid, WritePid, SetSignals, Bind, threads
<1>10. CASE MainLogs(p) \/ MainLogged(p)
  BY <1>5, <1>6, <1>10 DEF MainLogs, MainLogged
<1>11. CASE BindFails(p) \/ Crash(p)
  BY <1>7, <1>11 DEF BindFails, Crash
<1>12. CASE Interrupt(p)
  BY <1>5, <1>7, <1>12, SignalledParts DEF Interrupt, Handled, threads
<1>13. CASE Accept(p)
  <2>1. PICK s \in Session : sess[p][s] = "none" /\ sess' = [sess EXCEPT ![p][s] = "run"]
    BY <1>13 DEF Accept
  <2>2. Begun(p)' = Begun(p) \cup {s} /\ s \notin Begun(p) /\ Over(p)' = Over(p)
    BY <1>1, <2>1 DEF Begun, Over
  <2>3. Cardinality(Begun(p)') = Cardinality(Begun(p)) + 1
    BY <2>2, SessionsFinite, FS_AddElement
  <2>4. main[p] = "accept" /\ main'[p] = "count" /\ count' = count /\ loaded' = loaded
    BY <1>1, <1>13 DEF Accept, Goto
  <2>5. \A a, b \in Nat : CountsAtMost(p, a, b) => CountsAtMost(p, a, b)'
    BY <1>1, <2>1, <2>4 DEF CountsAtMost
  <2>6. count[p].created \in Nat
    BY <1>2 DEF Counters
  <2>7. Bad(p)' = Bad(p) /\ (BadIsOpen(p) => BadIsOpen(p)')
    BY <1>1, <2>1, <2>4 DEF Bad, BadIsOpen, Open
  <2> QED
    BY <2>2, <2>3, <2>4, <2>5, <2>6, <2>7 DEF Counted
<1>14. CASE CountCreated(p)
  <2>1. main[p] = "count" /\ main'[p] = "accept" /\ sess' = sess /\ loaded' = loaded
    BY <1>1, <1>14 DEF CountCreated, Goto
  <2>2. count[p] \in Counters /\ count'[p] = [count[p] EXCEPT !.created = @ + 1]
    BY <1>2, <1>14 DEF CountCreated
  <2>3. /\ count'[p].created = count[p].created + 1 /\ count[p].created \in Nat
        /\ count'[p].ok = count[p].ok /\ count'[p].err = count[p].err
    BY <2>2 DEF Counters
  <2>4. Begun(p)' = Begun(p) /\ Over(p)' = Over(p)
    BY <2>1 DEF Begun, Over
  <2>5. \A a, b \in Nat : CountsAtMost(p, a, b) => CountsAtMost(p, a, b)'
    BY <2>1, <2>3 DEF CountsAtMost
  <2>6. Bad(p)' = Bad(p) /\ (BadIsOpen(p) => BadIsOpen(p)')
    BY <2>1 DEF Bad, BadIsOpen
  <2> QED
    BY <2>1, <2>3, <2>4, <2>5, <2>6 DEF Counted
<1>15. ASSUME NEW s \in Session, SessionStep(p, s) PROVE Counted(p)'
  <2>1. CASE SessionLogs(p, s) \/ SessionLogged(p, s)
    <3>1. /\ \A t \in Session : sess'[p][t] = "store" => sess[p][t] = "store"
          /\ \A t \in Session : sess[p][t] \in Open => sess'[p][t] \in Open
          /\ Begun(p)' = Begun(p) /\ Over(p)' = Over(p)
      BY <1>1, <2>1 DEF SessionLogs, SessionLogged, SessGoto, Begun, Over, Open
    <3> QED
      BY <1>4, <2>1, <3>1 DEF SessionLogs, SessionLogged
  <2> QED
    BY <1>15, <2>1, LoadsCounted, StoresCounted, EndsCounted DEF SessionStep
<1>16. ASSUME NEW i \in DOMAIN handler[p], Handler(p, i) PROVE Counted(p)'
  BY <1>5, <1>7, <1>16 DEF Handler, HandlerLogs, HandlerLogged, LogEnd, Exit
<1> QED
  BY <1>8, <1>9, <1>10, <1>11, <1>12, <1>13, <1>14, <1>15, <1>16 DEF Step, MainStep

-----------------------------------------------------------------------------
(* The pid file *)

OneAlive == \A p, q \in Proc : Alive(p) /\ Alive(q) => p = q

(* What process p knows of the pid file, as long as it is the only one: the  *)
(* one it has open is the one there is, and once it has written its pid     *)
(* that is what is in it                                                   *)
Filing == {"say", "saying", "write"}
Filed  == {"signals"} \cup Armed

PidOf(p) ==
  /\ file[p] # None => main[p] \in Filing /\ file[p] = dir
  /\ main[p] = "write" => file[p] # None
  /\ wrote[p] => main[p] \in Filed
  /\ wrote[p] /\ handler[p] = <<>> => dir # None /\ content = p

PidInv == ~overlap => OneAlive /\ \A p \in Proc : PidOf(p)

(* Before a daemon starts there is no pid file to be wrong                 *)
LEMMA PidInit == Init => PidInv
BY DEF Init, PidInv, OneAlive, PidOf, Alive, Startup, Armed

(* A daemon that is alone writes its own pid into its own file, and        *)
(* nobody else removes it                                                  *)
LEMMA PidNext ==
  ASSUME NEW p \in Proc, Types, Step(p), PidInv
  PROVE  PidInv'
<1>1. main \in [Proc -> Place] /\ handler \in [Proc -> Seq(HandlerState)]
  BY DEF Types
<1>2. file \in [Proc -> Proc \cup {None}] /\ None \notin Proc
  BY Names DEF Types
<1>3. wrote \in [Proc -> BOOLEAN]
  BY DEF Types
<1>4. ASSUME NEW q \in Proc, q # p, ~overlap, PidInv, ~Alive(q) PROVE ~Alive(q)' /\ PidOf(q)'
  <2>1. main'[q] = main[q] /\ file'[q] = file[q] /\ wrote'[q] = wrote[q]
    BY <1>4, OthersAreSame DEF Same
  <2>2. file[q] = None /\ ~wrote[q] /\ main[q] # "write"
    BY <1>4 DEF PidInv, PidOf, Alive, Filing, Filed, Startup
  <2> QED
    BY <1>4, <2>1, <2>2 DEF Alive, PidOf
<1>5. ASSUME Alive(p), overlap' = overlap, ~overlap /\ PidOf(p) => PidOf(p)'
      PROVE  PidInv'
  <2> SUFFICES ASSUME ~overlap PROVE OneAlive' /\ \A q \in Proc : PidOf(q)'
    BY <1>5 DEF PidInv
  <2>1. \A q \in Proc : q # p => ~Alive(q)
    BY <1>5 DEF PidInv, OneAlive
  <2>2. \A q \in Proc : q # p => ~Alive(q)' /\ PidOf(q)'
    BY <1>4, <2>1
  <2>3. PidOf(p)'
    BY <1>5 DEF PidInv
  <2> QED
    BY <2>2, <2>3 DEF OneAlive
<1>6. CASE Start(p)
  <2> SUFFICES ASSUME ~overlap' PROVE OneAlive' /\ \A q \in Proc : PidOf(q)'
    BY DEF PidInv
  <2>1. ~overlap /\ \A q \in Proc : ~Alive(q)
    BY <1>6 DEF Start
  <2>2. \A q \in Proc : q # p => ~Alive(q)' /\ PidOf(q)'
    BY <1>4, <2>1
  <2>3. main[p] = "off" /\ main'[p] = "create" /\ UNCHANGED pidfile
    BY <1>1, <1>6 DEF Start
  <2>4. PidOf(p)
    BY <2>1 DEF PidInv
  <2>5. PidOf(p)'
    BY <2>3, <2>4 DEF PidOf, Filing, Filed, Armed, pidfile
  <2> QED
    BY <2>2, <2>5 DEF OneAlive
<1>7. ASSUME Alive(p), Die(p), overlap' = overlap PROVE PidInv'
  <2>1. main'[p] = "gone" /\ file'[p] = None /\ ~wrote'[p]
    BY <1>1, <1>2, <1>3, <1>7 DEF Die
  <2>2. PidOf(p)'
    BY <2>1 DEF PidOf
  <2> QED
    BY <1>5, <1>7, <2>2
<1>8. ASSUME NEW from, NEW to, Goto(p, from, to)
      PROVE  Alive(p) /\ main[p] = from /\ main'[p] = to
  BY <1>1, <1>8 DEF Goto, Runs
<1>9. CASE CreatePid(p)
  <2>1. Alive(p) /\ main[p] = "create" /\ main'[p] = "say" /\ overlap' = overlap
    BY <1>8, <1>9 DEF CreatePid
  <2>2. file'[p] = dir' /\ wrote'[p] = wrote[p]
    BY <1>2, <1>9 DEF CreatePid
  <2>3. PidOf(p) => PidOf(p)'
    BY <2>1, <2>2 DEF PidOf, Filing, Filed, Armed
  <2> QED
    BY <1>5, <2>1, <2>3
<1>10. CASE WritePid(p)
  <2>1. Alive(p) /\ main[p] = "write" /\ main'[p] = "signals" /\ UNCHANGED <<dir, handler, overlap>>
    BY <1>8, <1>10 DEF WritePid
  <2>2. file'[p] = None
    BY <1>2, <1>10 DEF WritePid
  <2>3. PICK done \in BOOLEAN : /\ content' = IF done /\ file[p] = dir THEN p ELSE content
                                /\ wrote' = [wrote EXCEPT ![p] = done]
    BY <1>10 DEF WritePid
  <2>4. wrote'[p] = done
    BY <1>3, <2>3
  <2>5. PidOf(p) => PidOf(p)'
    BY <2>1, <2>2, <2>3, <2>4 DEF PidOf, Filing, Filed
  <2> QED
    BY <1>5, <2>1, <2>5
<1>11. ASSUME Alive(p), UNCHANGED <<pidfile, overlap, handler>>,
              main[p] \in Filing /\ file[p] # None => main'[p] \in Filing,
              main'[p] = "write" => main[p] = "write" \/ file[p] # None,
              main[p] \in Filed => main'[p] \in Filed
       PROVE  PidInv'
  <2>1. PidOf(p) => PidOf(p)'
    BY <1>11 DEF PidOf, pidfile
  <2> QED
    BY <1>5, <1>11, <2>1
<1>12. CASE NoPid(p)
  <2>1. PidOf(p) /\ main[p] = "create" => file[p] = None
    BY DEF PidOf, Filing
  <2>2. /\ Alive(p) /\ main[p] = "create" /\ main'[p] \in {"say", "signals"}
        /\ UNCHANGED <<pidfile, overlap, handler>>
    BY <1>8, <1>12 DEF NoPid
  <2>3. PidOf(p) => PidOf(p)'
    BY <2>1, <2>2 DEF PidOf, pidfile, Filed, Armed
  <2> QED
    BY <1>5, <2>2, <2>3
<1>13. CASE SetSignals(p) \/ Bind(p)
  BY <1>8, <1>11, <1>13 DEF SetSignals, Bind, Filing, Filed, Armed
<1>14. CASE Accept(p) \/ CountCreated(p)
  BY <1>8, <1>11, <1>14 DEF Accept, CountCreated, Filing, Filed, Armed
<1>15. CASE MainLogs(p)
  BY <1>8, <1>11, <1>15 DEF MainLogs, Filing, Filed, Armed
<1>16. CASE MainLogged(p)
  <2>1. Alive(p) /\ UNCHANGED <<pidfile, overlap, handler>>
    BY <1>8, <1>16 DEF MainLogged
  <2>2. \/ main[p] = "saying" /\ main'[p] = IF file[p] = None THEN "signals" ELSE "write"
        \/ main[p] = "refuse" /\ main'[p] = "accept"
    BY <1>8, <1>16 DEF MainLogged
  <2> QED
    BY <1>11, <2>1, <2>2 DEF Filing, Filed, Armed
<1>17. CASE BindFails(p) \/ Crash(p)
  BY <1>7, <1>8, <1>17 DEF BindFails, Crash
<1>18. CASE Interrupt(p)
  <2>1. PICK sig \in 1 .. 2 : Signalled(p, sig)
    BY <1>18 DEF Interrupt
  <2>2. Alive(p) /\ overlap' = overlap
    BY <1>18, <2>1, SignalledParts DEF Interrupt
  <2>3. ASSUME NEW t \in Thread, NEW pc \in {"tell", "say"}, Handled(p, t, sig, pc) PROVE PidInv'
    <3>1. handler'[p] # <<>> /\ main[p] \in Armed /\ UNCHANGED <<main, file, wrote>>
      BY <1>1, <2>3 DEF Handled
    <3>2. PidOf(p) => PidOf(p)'
      BY <3>1 DEF PidOf, Armed, Filing
    <3> QED
      BY <1>5, <2>2, <3>2
  <2> QED
    BY <1>7, <2>1, <2>2, <2>3, SignalledParts
<1>19. ASSUME NEW s \in Session, SessionStep(p, s) PROVE PidInv'
  <2>1. Alive(p) /\ UNCHANGED <<main, pidfile, overlap, handler>>
    BY <1>19
    DEF SessionStep, SessionLogs, SessionLogged, SessionLoads, SessionStores, SessionEnds, SessGoto,
        Runs
  <2> QED
    BY <1>11, <2>1
<1>20. ASSUME NEW i \in DOMAIN handler[p], Handler(p, i) PROVE PidInv'
  <2>1. CASE Exit(p, i)
    BY <1>7, <2>1 DEF Exit, Top
  <2>2. CASE HandlerLogs(p, i) \/ HandlerLogged(p, i) \/ LogEnd(p, i)
    <3>1. PICK from, to : At(p, i, from, to)
      BY <2>2 DEF HandlerLogs, HandlerLogged, LogEnd
    <3>2. Alive(p) /\ handler[p] # <<>> /\ handler'[p] # <<>>
      BY <3>1, HandlerMoves DEF At, Top
    <3>3. UNCHANGED <<main, pidfile, overlap>>
      BY <2>2 DEF HandlerLogs, HandlerLogged, LogEnd
    <3>4. PidOf(p) => PidOf(p)'
      BY <3>2, <3>3 DEF PidOf, pidfile
    <3> QED
      BY <1>5, <3>2, <3>3, <3>4
  <2> QED
    BY <1>20, <2>1, <2>2 DEF Handler
<1> QED
  BY <1>6, <1>9, <1>10, <1>12, <1>13, <1>14, <1>15, <1>16, <1>17, <1>18, <1>19, <1>20
  DEF Step, MainStep

-----------------------------------------------------------------------------
(* The inductive invariant *)

DaemonInv == Types /\ (\A p \in Proc : MutexHeld(p) /\ ClosedBy(p) /\ Counted(p)) /\ PidInv

(* For any number of processes, sessions and signals, whatever crashes: the *)
(* types, who holds the log's mutex and who has closed the log, what the    *)
(* counters count, and what the pid file is when no daemons overlap.        *)
THEOREM DaemonInvariant == Spec => []DaemonInv
<1>1. Init => DaemonInv
  <2>1. Init => \A p \in Proc : ClosedBy(p)
    BY DEF Init, ClosedBy
  <2> QED
    BY <2>1, TypeInit, MutexInit, CountedInit, PidInit DEF DaemonInv
<1>2. DaemonInv /\ [Next]_vars => DaemonInv'
  <2> SUFFICES ASSUME DaemonInv, [Next]_vars PROVE DaemonInv'
    OBVIOUS
  <2>1. CASE Next
    <3>1. PICK p \in Proc : Step(p)
      BY <2>1, NextIsAStep DEF DaemonInv
    <3> QED
      BY <3>1, TypeNext, MutexNext, ClosedNext, CountedNext, PidNext DEF DaemonInv
  <2>2. CASE UNCHANGED vars
    <3> USE <2>2 DEF vars, threads, pidfile
    <3>1. Types'
      BY DEF DaemonInv, Types
    <3>2. \A p \in Proc : MutexHeld(p)' /\ ClosedBy(p)'
      BY DEF DaemonInv, MutexHeld, ClosedBy, InLog
    <3>3. \A p \in Proc : Counted(p)'
      BY SameCounted DEF DaemonInv, Same
    <3>4. PidInv'
      BY DEF DaemonInv, PidInv, OneAlive, PidOf, Alive
    <3> QED
      BY <3>1, <3>2, <3>3, <3>4 DEF DaemonInv
  <2> QED
    BY <2>1, <2>2
<1> QED
  BY <1>1, <1>2, PTL DEF Spec

(* The types; the log's mutex is held exactly by the one that is inside.    *)
THEOREM TypeCorrect == Spec => []TypeOK
<1>1. DaemonInv => TypeOK
  BY DEF DaemonInv, TypeOK, MutexHeld
<1> QED
  BY <1>1, DaemonInvariant, PTL

(* Nobody is inside a log that log_end has closed but the one that exits.   *)
THEOREM NothingIsLoggedAfterEnd == Spec => []NoLineAfterEnd
<1>1. DaemonInv => NoLineAfterEnd
  <2> SUFFICES ASSUME DaemonInv, NEW p \in Proc, closed[p], NEW who \in InLog(p)
               PROVE  who[2] > 0 /\ handler[p][who[2]].pc = "exit"
    BY DEF NoLineAfterEnd
  <2>1. handler[p] \in Seq(HandlerState)
    BY DEF DaemonInv, Types
  <2>2. PICK i \in DOMAIN handler[p] : handler[p][i].pc = "exit"
    BY DEF DaemonInv, ClosedBy
  <2>3. <<handler[p][i].on, i>> \in InLog(p)
    BY <2>2 DEF InLog, Inside
  <2>4. who = <<handler[p][i].on, i>>
    BY <2>3 DEF DaemonInv, MutexHeld
  <2> QED
    BY <2>1, <2>2, <2>4
<1> QED
  BY <1>1, DaemonInvariant, PTL

(* A daemon that serves and has written its pid is found by --kill, unless  *)
(* two have overlapped.                                                    *)
THEOREM KillFindsTheDaemon == Spec => []KillFindsIt
<1>1. DaemonInv => KillFindsIt
  BY Names DEF DaemonInv, PidInv, PidOf, KillFindsIt, Retrieved, Serving
<1> QED
  BY <1>1, DaemonInvariant, PTL

(* No session is counted as good and as bad, as good twice or as bad more   *)
(* than twice, whatever increments are lost.                               *)
THEOREM BooksAreHonest == Spec => []Books
<1>1. DaemonInv => Books
  <2> SUFFICES ASSUME DaemonInv, NEW p \in Proc
               PROVE  2 * count[p].ok + count[p].err
                        <= 2 * (count[p].created + IF main[p] = "count" THEN 1 ELSE 0)
    BY DEF Books
  <2>1. count[p].ok \in Nat /\ count[p].err \in Nat /\ count[p].created \in Nat
    BY DEF DaemonInv, Types, Counters
  <2>2. PICK a \in Nat, b \in Nat :
          /\ 2 * a + b <= 2 * Cardinality(Over(p)) + Cardinality(Bad(p))
          /\ CountsAtMost(p, a, b)
    BY DEF DaemonInv, Counted
  <2>3. 2 * count[p].ok + count[p].err <= 2 * Cardinality(Over(p)) + Cardinality(Bad(p))
    <3>1. count[p].ok <= a /\ count[p].err <= b
      BY <2>2 DEF CountsAtMost
    <3> QED
      BY <2>1, <2>2, <3>1, SessionsFinite
  <2>4. Cardinality(Over(p)) + Cardinality(Bad(p)) <= Cardinality(Begun(p))
    BY OverAndBad DEF DaemonInv, Counted
  <2>5. 2 * Cardinality(Over(p)) + Cardinality(Bad(p)) <= 2 * Cardinality(Begun(p))
    BY <2>4, SessionsFinite
  <2>6. Cardinality(Begun(p)) = count[p].created + IF main[p] = "count" THEN 1 ELSE 0
    BY DEF DaemonInv, Counted
  <2> QED
    BY <2>1, <2>3, <2>5, <2>6, SessionsFinite
<1> QED
  BY <1>1, DaemonInvariant, PTL
=============================================================================
