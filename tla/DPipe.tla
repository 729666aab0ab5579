------------------------------- MODULE DPipe --------------------------------
(***************************************************************************)
(* Messages that POP3 sessions send through a filter: retr of               *)
(* popforward.lua, with a pipe, and io.dpopen (dpipe_lua.c), which starts   *)
(* the filter as a grandson of the daemon.  The descriptors of one process  *)
(* are shared by its threads, and inherited by whatever is forked from it.  *)
(***************************************************************************)
EXTENDS Integers, FiniteSets

CONSTANTS
  Thread,  \* sessions
  Size,    \* length of a message
  Cap      \* what a pipe holds

ASSUME Sizes == Size \in Nat /\ Cap \in Nat \ {0}

VARIABLES
  pc,      \* where io_dpopen and retr are
  left,    \* what is still to be written to the filter
  got,     \* what has been read from it
  fd,      \* the ends of pipes the daemon has open
  filter,  \* not started, at work, at its end; or a copy of the daemon
  kind,    \* a filter that reads everything before it writes, or not
  held,    \* the ends of pipes it has open
  buf,     \* what it has read and not written
  eof,     \* has it seen the end of the message?
  out, in  \* what each of the pipes holds

session  == <<pc, left, got>>
child    == <<filter, kind, held, buf, eof>>
pipeVars == <<session, fd, child, out, in>>

(* out[READ], out[WRITE], in[READ], in[WRITE] of io_dpopen                  *)
End == [of : Thread, end : {"outR", "outW", "inR", "inW"}]
E(t, e) == [of |-> t, end |-> e]

Place == {"idle", "out", "in", "forked", "write", "read", "ok", "error"}

PipeTypeOK ==
  /\ pc \in [Thread -> Place]
  /\ left \in [Thread -> 0 .. Size] /\ got \in [Thread -> 0 .. Size]
  /\ fd \subseteq End
  /\ filter \in [Thread -> {"none", "copy", "run", "done", "dead"}]
  /\ kind \in [Thread -> {"slurp", "stream"}]
  /\ held \in [Thread -> SUBSET End]
  /\ buf \in [Thread -> 0 .. Size] /\ eof \in [Thread -> BOOLEAN]
  /\ out \in [Thread -> 0 .. Cap] /\ in \in [Thread -> 0 .. Cap]
  /\ \A t \in Thread :
       /\ held[t] # {} => filter[t] \in {"copy", "run"}
       /\ left[t] + out[t] + buf[t] + in[t] + got[t] <= Size

PipeInit ==
  /\ pc = [t \in Thread |-> "idle"]
  /\ left = [t \in Thread |-> Size] /\ got = [t \in Thread |-> 0]
  /\ fd = {}
  /\ filter = [t \in Thread |-> "none"]
  /\ kind \in [Thread -> {"slurp", "stream"}]
  /\ held = [t \in Thread |-> {}]
  /\ buf = [t \in Thread |-> 0] /\ eof = [t \in Thread |-> FALSE]
  /\ out = [t \in Thread |-> 0] /\ in = [t \in Thread |-> 0]

(* Is this end open in any process?                                        *)
Open(e) == e \in fd \/ \E u \in Thread : e \in held[u]

Goto(t, from, to) == pc[t] = from /\ pc' = [pc EXCEPT ![t] = to]

-----------------------------------------------------------------------------
(* io_dpopen *)

PipeOut(t) ==
  /\ Goto(t, "idle", "out")
  /\ fd' = fd \cup {E(t, "outR"), E(t, "outW")}
  /\ UNCHANGED <<left, got, child, out, in>>

PipeIn(t) ==
  /\ Goto(t, "out", "in")
  /\ fd' = fd \cup {E(t, "inR"), E(t, "inW")}
  /\ UNCHANGED <<left, got, child, out, in>>

(* pipe or fork fails: a Lua error, which leaves open what has been opened *)
Fails(t) ==
  /\ Goto(t, "idle", "error") \/ Goto(t, "out", "error") \/ Goto(t, "in", "error")
  /\ UNCHANGED <<left, got, fd, child, out, in>>

(* Fault: the filter keeps the end its input is written to                 *)
Inherited_All(t) == fd

(* What the grandson has open once it has closed the ends of the daemon's:  *)
(* its own two, and those of the calls other threads are in                *)
Inherited(t) == fd \ {E(t, "inR"), E(t, "outW")}

(* Both forks, the execv, and waitpid for the son: the daemon waits for     *)
(* nothing else                                                            *)
Fork(t) ==
  /\ Goto(t, "in", "forked")
  /\ filter' = [filter EXCEPT ![t] = "run"]
  /\ held' = [held EXCEPT ![t] = Inherited(t)]
  /\ UNCHANGED <<left, got, fd, kind, buf, eof, out, in>>

(* The son cannot fork: nobody looks at the -1                             *)
SonForkFails(t) ==
  /\ Goto(t, "in", "forked")
  /\ filter' = [filter EXCEPT ![t] = "dead"]
  /\ UNCHANGED <<left, got, fd, kind, held, buf, eof, out, in>>

(* execv fails: the error is raised in the grandson, which goes on as a    *)
(* copy of the session, talks to its client and ends                       *)
ExecFails(t) ==
  /\ Goto(t, "in", "forked")
  /\ filter' = [filter EXCEPT ![t] = "copy"]
  /\ held' = [held EXCEPT ![t] = Inherited(t)]
  /\ UNCHANGED <<left, got, fd, kind, buf, eof, out, in>>

(* The daemon closes the ends of the filter's                              *)
CloseEnds(t) ==
  /\ Goto(t, "forked", "write")
  /\ fd' = fd \ {E(t, "outR"), E(t, "inW")}
  /\ UNCHANGED <<left, got, child, out, in>>

-----------------------------------------------------------------------------
(* retr *)

(* Fault: what does not fit into the pipe is not written                   *)
Write_Once(t) ==
  /\ pc[t] = "write" /\ left[t] > 0
  /\ Open(E(t, "outR"))
  /\ out' = [out EXCEPT ![t] = IF @ < Cap THEN @ + 1 ELSE @]
  /\ left' = [left EXCEPT ![t] = @ - 1]
  /\ UNCHANGED <<pc, got, fd, child, in>>

(* w:write waits until the pipe has room                                   *)
Write(t) ==
  /\ pc[t] = "write" /\ left[t] > 0
  /\ Open(E(t, "outR"))
  /\ out[t] < Cap /\ out' = [out EXCEPT ![t] = @ + 1]
  /\ left' = [left EXCEPT ![t] = @ - 1]
  /\ UNCHANGED <<pc, got, fd, child, in>>

(* EPIPE: nobody looks at the result of w:write                            *)
WriteFails(t) ==
  /\ pc[t] = "write" /\ left[t] > 0
  /\ ~Open(E(t, "outR"))
  /\ left' = [left EXCEPT ![t] = 0]
  /\ UNCHANGED <<pc, got, fd, child, out, in>>

CloseW(t) ==
  /\ Goto(t, "write", "read")
  /\ left[t] = 0
  /\ fd' = fd \ {E(t, "outW")}
  /\ UNCHANGED <<left, got, child, out, in>>

Read(t) ==
  /\ pc[t] = "read"
  /\ in[t] > 0 /\ in' = [in EXCEPT ![t] = @ - 1]
  /\ got' = [got EXCEPT ![t] = @ + 1]
  /\ UNCHANGED <<pc, left, fd, child, out>>

(* Fault: r is left to the collector, which may never run                  *)
ReadEnds_KeepsR(t) ==
  /\ Goto(t, "read", "ok")
  /\ in[t] = 0 /\ ~Open(E(t, "inW"))
  /\ UNCHANGED <<left, got, fd, child, out, in>>

(* r:read has read it all; r:close; whatever it is, it is the message      *)
ReadEnds(t) ==
  /\ Goto(t, "read", "ok")
  /\ in[t] = 0 /\ ~Open(E(t, "inW"))
  /\ fd' = fd \ {E(t, "inR")}
  /\ UNCHANGED <<left, got, child, out, in>>

-----------------------------------------------------------------------------
(* The filter *)

FilterReads(t) ==
  /\ filter[t] = "run"
  /\ kind[t] = "slurp" \/ buf[t] = 0
  /\ out[t] > 0 /\ out' = [out EXCEPT ![t] = @ - 1]
  /\ buf' = [buf EXCEPT ![t] = @ + 1]
  /\ UNCHANGED <<session, fd, filter, kind, held, eof, in>>

FilterEof(t) ==
  /\ filter[t] = "run" /\ ~eof[t]
  /\ out[t] = 0 /\ ~Open(E(t, "outW"))
  /\ eof' = [eof EXCEPT ![t] = TRUE]
  /\ UNCHANGED <<session, fd, filter, kind, held, buf, out, in>>

FilterWrites(t) ==
  /\ filter[t] = "run"
  /\ kind[t] = "stream" \/ eof[t]
  /\ buf[t] > 0 /\ buf' = [buf EXCEPT ![t] = @ - 1]
  /\ in[t] < Cap /\ in' = [in EXCEPT ![t] = @ + 1]
  /\ UNCHANGED <<session, fd, filter, kind, held, eof, out>>

FilterEnds(t) ==
  /\ \/ /\ filter[t] = "run" /\ eof[t] /\ buf[t] = 0
        /\ filter' = [filter EXCEPT ![t] = "done"]
     \/ /\ filter[t] = "copy"
        /\ filter' = [filter EXCEPT ![t] = "dead"]
  /\ held' = [held EXCEPT ![t] = {}]
  /\ UNCHANGED <<session, fd, kind, buf, eof, out, in>>

(* It is killed, or fails                                                  *)
FilterDies(t) ==
  /\ filter[t] = "run"
  /\ filter' = [filter EXCEPT ![t] = "dead"]
  /\ held' = [held EXCEPT ![t] = {}]
  /\ UNCHANGED <<session, fd, kind, buf, eof, out, in>>

Daemon(t) ==
  \/ PipeIn(t) \/ Fails(t) \/ Fork(t) \/ SonForkFails(t) \/ ExecFails(t)
  \/ CloseEnds(t) \/ Write(t) \/ WriteFails(t) \/ CloseW(t) \/ Read(t) \/ ReadEnds(t)
Filter(t) == FilterReads(t) \/ FilterEof(t) \/ FilterWrites(t) \/ FilterEnds(t)

PipeNext == \E t \in Thread : PipeOut(t) \/ Daemon(t) \/ Filter(t) \/ FilterDies(t)

(* Processes and threads run when they can.  No message need come, and no   *)
(* filter need die.                                                        *)
PipeSpec     == PipeInit /\ [][PipeNext]_pipeVars
PipeFairSpec == PipeSpec /\ \A t \in Thread : WF_pipeVars(Daemon(t)) /\ WF_pipeVars(Filter(t))

-----------------------------------------------------------------------------
(* A filter that ends by itself has been given the whole message, and what  *)
(* it makes of it is what the client gets, however pipes and processes of   *)
(* other sessions are crossed with its own                                 *)
Filtered == \A t \in Thread : pc[t] = "ok" /\ filter[t] = "done" => got[t] = Size

(* Nothing stays open in the daemon of a call that was successful           *)
NoLeak == \A t \in Thread : pc[t] = "ok" => \A e \in fd : e.of # t

(* Two filters hold the end the input of the other is written to           *)
Crossed == \E t, u \in Thread : t # u /\ E(t, "outW") \in held[u] /\ E(u, "outW") \in held[t]

(* The session waits for its filter to read, the filter for it to read      *)
Overfull(t) ==
  pc[t] = "write" /\ left[t] > 0 /\ kind[t] = "stream"
  /\ out[t] = Cap /\ buf[t] = 1 /\ in[t] = Cap

(* A session gets its message back or an error, but in two cases: two       *)
(* sessions that start their filters at a time, and a filter that writes    *)
(* before it has read all of a message the pipes do not hold               *)
SessionReturns ==
  \A t \in Thread :
    pc[t] # "idle" ~> (pc[t] \in {"ok", "error"} \/ Crossed \/ \E u \in Thread : Overfull(u))
=============================================================================
