------------------------------- MODULE MCLive -------------------------------
(***************************************************************************)
(* What has to happen in the end, on smaller instances than those of MCGo  *)
(* and MCProcs. The variable part chooses the component; the variables of  *)
(* the others stay 0. The fairness of a component is a premise of its      *)
(* properties, where it concerns nothing else.                             *)
(***************************************************************************)
EXTENDS Integers, Sequences

CONSTANTS None, Procs, InitProc, UserMain, NoProc, Idle

VARIABLES part,  \* the component
          lockKey, lockSema, sems, op, mine, destroys, wakeup, u, k, sem, pc, armed, w, r, readerCount, b, data, rl, wl,
          rerr, werr, err, took, res, now, timers, t, f, ns, currentSleeper,
          sleepers, prompt, names, chans, src, dst, tx, rx, wire, run, cur,
          seqNum, ackNum, encLock, mu, seqLock, chanLock, conn, errors, imported, hung, panic, sent,
          got, kind, seqOf, result, times, seq, pending, closing, shutdown,
          csending, input, current, requests, responses, serve, reading,
          jobs, ssending, open, state, rq, level, slice, need_resched,
          timer_list, next, ret, parent, kids, rings, wait_state, waitpid,
          exiting, exit_code, deserted, proc_list, nr_process, forking, last_pid,
          next_safe, scanner, le

allvars == <<part, lockKey, lockSema, sems, op, mine, destroys, wakeup, u, k, sem, pc, armed, w, r, readerCount, b, data, rl, wl,
            rerr, werr, err, took, res, now, timers, t, f, ns,
            currentSleeper, sleepers, prompt, names, chans, src, dst, tx, rx,
            wire, run, cur, seqNum, ackNum, encLock, mu, seqLock, chanLock, conn, errors, imported,
            hung, panic, sent, got, kind, seqOf, result, times, seq, pending,
            closing, shutdown, csending, input, current, requests, responses,
            serve, reading, jobs, ssending, open, state, rq, level, slice,
            need_resched, timer_list, next, ret, parent, kids, rings,
            wait_state, waitpid, exiting, exit_code, deserted, proc_list, nr_process,
            forking, last_pid, next_safe, scanner, le>>

LK == INSTANCE RuntimeLock WITH Ms <- {"t1", "t2", "t3"}, MaxSems <- 4, MaxDestroys <- 0,
                                lockPc <- pc
N == INSTANCE RuntimeNote WITH Sleepers <- {"s"}, Wakers <- {"w1", "w2"}, Half <- 4,
                          MaxTokens <- 4, MaxSurplus <- 2, notePc <- pc, noteSem <- sem
RW == INSTANCE RWMutex WITH RWGs <- {"g1", "g2", "g3"}, rwPc <- pc
P == INSTANCE IoPipe WITH Readers <- {"r1", "r2"}, Writers <- {"w1"}, IoMaxLen <- 2,
                       ioPc <- pc
T == INSTANCE GoTimer WITH Ts <- {1, 2}, Sentinel <- None, MaxSleepTime <- 2, MaxNow <- 3
\* netchan with channels both ways, on a connection that holds as many items as they
\* have credits,
NX == INSTANCE Netchan WITH Chans <- {"d", "u"}, Count <- -1, Size <- 1, MaxVals <- 1,
                      Faults <- {}, Down <- {"d"}, Cap <- 1, ErrCap <- 1, Buffer <- 2
\* and over net.Pipe;
NB == INSTANCE Netchan WITH Chans <- {"d", "u"}, Count <- -1, Size <- 1, MaxVals <- 1,
                      Faults <- {}, Down <- {"d"}, Cap <- 1, ErrCap <- 1, Buffer <- 0
\* with a channel either way that is closed while the connection fails,
NF == INSTANCE Netchan WITH Chans <- {"d"}, Count <- -1, Size <- 1, MaxVals <- 2,
                      Faults <- {"close", "conn"}, Down <- {"d"}, Cap <- 1, ErrCap <- 1, Buffer <- 0
NU == INSTANCE Netchan WITH Chans <- {"u"}, Count <- -1, Size <- 1, MaxVals <- 2,
                      Faults <- {"close", "conn"}, Down <- {}, Cap <- 1, ErrCap <- 1, Buffer <- 0
\* and with a count.
NC == INSTANCE Netchan WITH Chans <- {"d"}, Count <- 3, Size <- 2, MaxVals <- 4,
                      Faults <- {}, Down <- {"d"}, Cap <- 1, ErrCap <- 1, Buffer <- 0
R == INSTANCE Rpc WITH Calls <- {"c1", "c2"}
SC == INSTANCE Sched WITH Levels <- 2, Base <- 1, MaxSleep <- 0, Interactive <- {}
L == INSTANCE ProcLife WITH Sleepers <- Procs \ {InitProc}, WaitPids <- Procs \ {InitProc},
                            Victims <- Procs, Codes <- {"E_KILLED"}
PD == INSTANCE Pid WITH MAX_PROCESS <- 4, MAX_PID <- 8

-----------------------------------------------------------------------------
\* The variables by the components that use them.  They are 0 in the others; pc is
\* shared, as current, state and panic are.
lockVars == <<lockKey, lockSema, sems, op, mine, destroys>>
lockOff == lockKey = 0 /\ lockSema = 0 /\ sems = 0 /\ op = 0 /\ mine = 0 /\ destroys = 0
noteVars == <<wakeup, u, k, sem, armed>>
noteOff == wakeup = 0 /\ u = 0 /\ k = 0 /\ sem = 0 /\ armed = 0
rwmutexVars == <<w, r, readerCount>>
rwmutexOff == w = 0 /\ r = 0 /\ readerCount = 0
pipeVars == <<b, data, rl, wl, rerr, werr, err, took, res>>
pipeOff == b = 0 /\ data = 0 /\ rl = 0 /\ wl = 0 /\ rerr = 0 /\ werr = 0 /\
           err = 0 /\ took = 0 /\ res = 0
timerVars == <<now, timers, t, f, ns, currentSleeper, sleepers, prompt>>
timerOff == now = 0 /\ timers = 0 /\ t = 0 /\ f = 0 /\ ns = 0 /\
            currentSleeper = 0 /\ sleepers = 0 /\ prompt = 0
netVars == <<names, chans, src, dst, tx, rx, wire, run, cur, seqNum, ackNum,
            encLock, mu, seqLock, chanLock, conn, errors, imported, hung, sent, got>>
netOff == names = 0 /\ chans = 0 /\ src = 0 /\ dst = 0 /\ tx = 0 /\ rx = 0
          /\ wire = 0 /\ run = 0 /\ cur = 0 /\ seqNum = 0 /\ ackNum = 0 /\ encLock = 0 /\ mu = 0 /\
          seqLock = 0 /\ chanLock = 0 /\ conn = 0 /\ errors = 0 /\ imported = 0 /\ hung = 0
          /\ sent = 0 /\ got = 0
rpcVars == <<kind, seqOf, result, times, seq, pending, closing, shutdown,
            csending, input, requests, responses, serve, reading, jobs,
            ssending, open>>
rpcOff == kind = 0 /\ seqOf = 0 /\ result = 0 /\ times = 0 /\ seq = 0 /\
          pending = 0 /\ closing = 0 /\ shutdown = 0 /\ csending = 0 /\
          input = 0 /\ requests = 0 /\ responses = 0 /\ serve = 0 /\
          reading = 0 /\ jobs = 0 /\ ssending = 0 /\ open = 0
schedVars == <<rq, level, slice, need_resched, timer_list, next, ret>>
schedOff == rq = 0 /\ level = 0 /\ slice = 0 /\ need_resched = 0 /\
            timer_list = 0 /\ next = 0 /\ ret = 0
lifeVars == <<parent, kids, rings, wait_state, waitpid, exiting, exit_code, deserted>>
lifeOff == parent = 0 /\ kids = 0 /\ rings = 0 /\ wait_state = 0 /\
           waitpid = 0 /\ exiting = 0 /\ exit_code = 0 /\ deserted = 0
pidVars == <<proc_list, nr_process, forking, last_pid, next_safe, scanner, le>>
pidOff == proc_list = 0 /\ nr_process = 0 /\ forking = 0 /\ last_pid = 0 /\
          next_safe = 0 /\ scanner = 0 /\ le = 0

LockInit == /\ part = "lock" /\ LK!LockInit
            /\ noteOff /\ rwmutexOff /\ pipeOff /\ timerOff /\ netOff /\ panic = 0 /\
               rpcOff /\ current = 0 /\ state = 0 /\ schedOff /\ lifeOff /\
               pidOff
LockNext == /\ part = "lock" /\ LK!LockNext
            /\ UNCHANGED <<part, noteVars, rwmutexVars, pipeVars, timerVars, netVars, panic,
                           rpcVars, current, state, schedVars, lifeVars,
                           pidVars>>

NoteInit == /\ part = "note" /\ N!NoteInit
            /\ lockOff /\ rwmutexOff /\ pipeOff /\ timerOff /\ netOff /\ panic = 0 /\
               rpcOff /\ current = 0 /\ state = 0 /\ schedOff /\ lifeOff /\
               pidOff
NoteNext == /\ part = "note" /\ N!NoteNext
            /\ UNCHANGED <<part, lockVars, rwmutexVars, pipeVars, timerVars, netVars, panic,
                           rpcVars, current, state, schedVars, lifeVars,
                           pidVars>>

RwmutexInit == /\ part = "rwmutex" /\ RW!RWInit
               /\ lockOff /\ noteOff /\ pipeOff /\ timerOff /\ netOff /\ panic = 0 /\
                  rpcOff /\ current = 0 /\ state = 0 /\ schedOff /\ lifeOff
                  /\ pidOff
RwmutexNext == /\ part = "rwmutex" /\ RW!RWNext
               /\ UNCHANGED <<part, lockVars, noteVars, pipeVars, timerVars, netVars, panic,
                              rpcVars, current, state, schedVars, lifeVars,
                              pidVars>>

PipeInit == /\ part = "pipe" /\ P!IoInit
            /\ lockOff /\ noteOff /\ rwmutexOff /\ timerOff /\ netOff /\ panic = 0 /\
               rpcOff /\ current = 0 /\ state = 0 /\ schedOff /\ lifeOff /\
               pidOff
PipeNext == /\ part = "pipe" /\ P!IoNext
            /\ UNCHANGED <<part, lockVars, noteVars, rwmutexVars, timerVars, netVars, panic,
                           rpcVars, current, state, schedVars, lifeVars,
                           pidVars>>

TimerInit == /\ part = "timer" /\ T!Init
             /\ lockOff /\ noteOff /\ rwmutexOff /\ pipeOff /\ netOff /\ panic = 0 /\
                rpcOff /\ current = 0 /\ state = 0 /\ schedOff /\ lifeOff /\
                pidOff
TimerNext == /\ part = "timer" /\ T!Next
             /\ UNCHANGED <<part, lockVars, noteVars, rwmutexVars, pipeVars, netVars, panic,
                            rpcVars, current, state, schedVars, lifeVars,
                            pidVars>>

NetbufInit == /\ part = "netbuf" /\ NX!Init
                /\ lockOff /\ noteOff /\ pc = 0 /\ rwmutexOff /\ pipeOff /\ timerOff /\
                   rpcOff /\ current = 0 /\ state = 0 /\ schedOff /\ lifeOff
                   /\ pidOff
NetbufNext == /\ part = "netbuf" /\ NX!Next
                /\ UNCHANGED <<part, lockVars, noteVars, pc, rwmutexVars, pipeVars,
                               timerVars, rpcVars, current, state, schedVars,
                               lifeVars, pidVars>>

NetpipeInit == /\ part = "netpipe" /\ NB!Init
               /\ lockOff /\ noteOff /\ pc = 0 /\ rwmutexOff /\ pipeOff /\ timerOff /\
                  rpcOff /\ current = 0 /\ state = 0 /\ schedOff /\ lifeOff
                  /\ pidOff
NetpipeNext == /\ part = "netpipe" /\ NB!Next
               /\ UNCHANGED <<part, lockVars, noteVars, pc, rwmutexVars, pipeVars,
                              timerVars, rpcVars, current, state, schedVars,
                              lifeVars, pidVars>>

NetconnInit == /\ part = "netconn" /\ NF!Init
               /\ lockOff /\ noteOff /\ pc = 0 /\ rwmutexOff /\ pipeOff /\ timerOff /\
                  rpcOff /\ current = 0 /\ state = 0 /\ schedOff /\ lifeOff
                  /\ pidOff
NetconnNext == /\ part = "netconn" /\ NF!Next
               /\ UNCHANGED <<part, lockVars, noteVars, pc, rwmutexVars, pipeVars, timerVars,
                              rpcVars, current, state, schedVars, lifeVars,
                              pidVars>>

NetupInit == /\ part = "netup" /\ NU!Init
               /\ lockOff /\ noteOff /\ pc = 0 /\ rwmutexOff /\ pipeOff /\ timerOff /\
                  rpcOff /\ current = 0 /\ state = 0 /\ schedOff /\ lifeOff
                  /\ pidOff
NetupNext == /\ part = "netup" /\ NU!Next
               /\ UNCHANGED <<part, lockVars, noteVars, pc, rwmutexVars, pipeVars, timerVars,
                              rpcVars, current, state, schedVars, lifeVars,
                              pidVars>>

NetcountInit == /\ part = "netcount" /\ NC!Init
                /\ lockOff /\ noteOff /\ pc = 0 /\ rwmutexOff /\ pipeOff /\ timerOff /\
                   rpcOff /\ current = 0 /\ state = 0 /\ schedOff /\ lifeOff
                   /\ pidOff
NetcountNext == /\ part = "netcount" /\ NC!Next
                /\ UNCHANGED <<part, lockVars, noteVars, pc, rwmutexVars, pipeVars,
                               timerVars, rpcVars, current, state, schedVars,
                               lifeVars, pidVars>>

RpcInit == /\ part = "rpc" /\ R!Init
           /\ lockOff /\ noteOff /\ rwmutexOff /\ pipeOff /\ timerOff /\ netOff /\
              state = 0 /\ schedOff /\ lifeOff /\ pidOff
RpcNext == /\ part = "rpc" /\ R!Next
           /\ UNCHANGED <<part, lockVars, noteVars, rwmutexVars, pipeVars, timerVars,
                          netVars, state, schedVars, lifeVars, pidVars>>

SchedInit == /\ part = "sched" /\ SC!Init
             /\ lockOff /\ noteOff /\ rwmutexOff /\ pipeOff /\ timerOff /\ netOff /\
                panic = 0 /\ rpcOff /\ lifeOff /\ pidOff
SchedNext == /\ part = "sched" /\ SC!Next
             /\ UNCHANGED <<part, lockVars, noteVars, rwmutexVars, pipeVars, timerVars,
                            netVars, panic, rpcVars, lifeVars, pidVars>>

LifeInit == /\ part = "life" /\ L!Init
            /\ lockOff /\ noteOff /\ rwmutexOff /\ pipeOff /\ timerOff /\ netOff /\
               panic = 0 /\ rpcOff /\ schedOff /\ pidOff
LifeNext == /\ part = "life" /\ L!Next
            /\ UNCHANGED <<part, lockVars, noteVars, rwmutexVars, pipeVars, timerVars,
                           netVars, panic, rpcVars, schedVars, pidVars>>

PidInit == /\ part = "pid" /\ PD!PidInit
           /\ lockOff /\ noteOff /\ pc = 0 /\ rwmutexOff /\ pipeOff /\ timerOff /\
              netOff /\ panic = 0 /\ rpcOff /\ current = 0 /\ state = 0 /\
              schedOff /\ lifeOff
PidNext == /\ part = "pid" /\ PD!PidNext
           /\ UNCHANGED <<part, lockVars, noteVars, pc, rwmutexVars, pipeVars, timerVars,
                          netVars, panic, rpcVars, current, state, schedVars,
                          lifeVars>>

Init == LockInit \/ NoteInit \/ RwmutexInit \/ PipeInit \/ TimerInit \/ NetbufInit \/
        NetpipeInit \/ NetconnInit \/ NetupInit \/ NetcountInit \/ RpcInit \/ SchedInit \/ LifeInit \/
        PidInit
Next == LockNext \/ NoteNext \/ RwmutexNext \/ PipeNext \/ TimerNext \/ NetbufNext \/
        NetpipeNext \/ NetconnNext \/ NetupNext \/ NetcountNext \/ RpcNext \/ SchedNext \/ LifeNext \/
        PidNext

Spec == Init /\ [][Next]_allvars

ASSUME N!NoteAssumption /\ SC!SchedAssumption /\ L!LifeAssumption /\ PD!PidAssumption

lockAll == LK!lockVars
noteAll == N!noteVars
rwmutexAll == RW!rwVars
pipeAll == P!ioVars
timerAll == T!vars
netAll == NX!vars
rpcAll == R!vars
schedAll == SC!vars
lifeAll == L!vars
pidAll == PD!pidVars

\* The fairness of the components.
LockFairness ==
  \A t_ \in {"t1", "t2", "t3"} : WF_lockAll(part = "lock" /\ LK!LockTurn(t_))
NoteFairness ==
  /\ WF_noteAll(part = "note" /\ N!SleeperStep("s"))
  /\ \A t_ \in {"w1", "w2"} : WF_noteAll(part = "note" /\ N!WakerWork(t_))
  /\ WF_noteAll(part = "note" /\ \E t_ \in {"w1", "w2"} : N!TakeRound(t_))
RWMutexFairness ==
  \A g \in {"g1", "g2", "g3"} : WF_rwmutexAll(part = "rwmutex" /\ RW!RWStep(g))
PipeFairness == \A p \in {"r1", "r2", "w1"} : SF_pipeAll(part = "pipe" /\ P!IoTurn(p))
TimerFairness ==
  /\ \A e \in {1, 2} : []<>~(part = "timer" /\ T!Calls(e))
  /\ \A id \in {1, 2} :
       /\ []<>~(part = "timer" /\ sleepers[id].pc = "start")
       /\ []<>~(part = "timer" /\ sleepers[id].pc = "sleep")
       /\ []<>~(part = "timer" /\ T!Wakes(id))
  /\ WF_timerAll(part = "timer" /\ T!Tick)
NetbufFairness ==
  /\ \A c \in {"d", "u"} : /\ WF_netAll(part = "netbuf" /\ NX!Goroutine(c))
                           /\ WF_netAll(part = "netbuf" /\ NX!SenderRun(c))
                           /\ WF_netAll(part = "netbuf" /\ NX!AppRecv(c))
  /\ \A w_ \in {"exp", "imp"} : WF_netAll(part = "netbuf" /\ NX!Return(w_))
  /\ WF_netAll(part = "netbuf" /\ NX!ExpRun)
  /\ WF_netAll(part = "netbuf" /\ NX!ImpRun)
NetpipeFairness ==
  /\ \A c \in {"d", "u"} : /\ WF_netAll(part = "netpipe" /\ NB!Goroutine(c))
                           /\ WF_netAll(part = "netpipe" /\ NB!SenderRun(c))
                           /\ WF_netAll(part = "netpipe" /\ NB!AppRecv(c))
  /\ \A w_ \in {"exp", "imp"} : WF_netAll(part = "netpipe" /\ NB!Return(w_))
  /\ WF_netAll(part = "netpipe" /\ NB!ExpRun)
  /\ WF_netAll(part = "netpipe" /\ NB!ImpRun)
NetconnFairness ==
  /\ WF_netAll(part = "netconn" /\ NF!Goroutine("d"))
  /\ WF_netAll(part = "netconn" /\ NF!SenderRun("d"))
  /\ WF_netAll(part = "netconn" /\ NF!AppRecv("d"))
  /\ \A w_ \in {"exp", "imp"} : WF_netAll(part = "netconn" /\ NF!Return(w_))
  /\ WF_netAll(part = "netconn" /\ NF!ExpRun) /\ WF_netAll(part = "netconn" /\ NF!ImpRun)
NetupFairness ==
  /\ WF_netAll(part = "netup" /\ NU!Goroutine("u"))
  /\ WF_netAll(part = "netup" /\ NU!SenderRun("u"))
  /\ WF_netAll(part = "netup" /\ NU!AppRecv("u"))
  /\ \A w_ \in {"exp", "imp"} : WF_netAll(part = "netup" /\ NU!Return(w_))
  /\ WF_netAll(part = "netup" /\ NU!ExpRun) /\ WF_netAll(part = "netup" /\ NU!ImpRun)
NetcountFairness ==
  /\ WF_netAll(part = "netcount" /\ NC!Goroutine("d"))
  /\ WF_netAll(part = "netcount" /\ NC!SenderRun("d"))
  /\ WF_netAll(part = "netcount" /\ NC!AppRecv("d"))
  /\ \A w_ \in {"exp", "imp"} : WF_netAll(part = "netcount" /\ NC!Return(w_))
  /\ WF_netAll(part = "netcount" /\ NC!ExpRun) /\ WF_netAll(part = "netcount" /\ NC!ImpRun)
RpcFairness ==
  /\ \A c \in {"c1", "c2"} : WF_rpcAll(part = "rpc" /\ R!Steps(c))
  /\ WF_rpcAll(part = "rpc" /\ R!Input) /\ WF_rpcAll(part = "rpc" /\ R!Serve)
  /\ WF_rpcAll(part = "rpc" /\ \E j \in jobs : R!Job(j))
SchedFairness == /\ WF_schedAll(part = "sched" /\ SC!Tick)
                 /\ WF_schedAll(part = "sched" /\ SC!Kernel)
LifeFairness == /\ \A p \in Procs : /\ WF_lifeAll(part = "life" /\ L!Kernel(p))
                                    /\ SF_lifeAll(part = "life" /\ L!Run(p))
                /\ SF_lifeAll(part = "life" /\ \E p \in Procs : L!Preempt(p))
PidFairness == /\ WF_pidAll(part = "pid" /\ PD!Walk)
               /\ WF_pidAll(part = "pid" /\ PD!set_links)

-----------------------------------------------------------------------------
(* Goroutines, timers and calls that differ in name only are interchangeable:
   one stands for all. *)

\* A thread that asks for a lock of the runtime gets it.
AskedIsServed ==
  LockFairness =>
    ((part = "lock" /\ "t1" \in LK!Wanting) ~> (part = "lock" => pc["t1"] = "inside"))

\* A notesleep whose note has been woken returns.
AllSleepersReturn ==
  NoteFairness =>
    ((part = "note" /\ wakeup = 1 /\ pc["s"] # "out") ~> (part = "note" => pc["s"] = "out"))

\* A goroutine in RWMutex.Lock that waits for the readers gets the lock.
LockIsServed ==
  RWMutexFairness =>
    ((part = "rwmutex" /\ pc["g1"] = "LockW") ~> (part = "rwmutex" => pc["g1"] = "writing"))

\* Closing an io.Pipe ends the calls of the other side, and closing the reader
\* those of its own too.
CloseEndsCalls ==
  PipeFairness =>
    /\ (part = "pipe" /\ (rerr \/ werr)) ~> (part = "pipe" => pc["r1"] = "out")
    /\ (part = "pipe" /\ rerr) ~> (part = "pipe" => pc["w1"] = "out")

\* Every timer that is set is served or stopped, and sleepers of package time that
\* have been replaced end.
EveryTimerFires ==
  TimerFairness =>
    /\ (part = "timer" /\ f[1] = "set") ~> (part = "timer" => f[1] # "set")
    /\ (part = "timer" /\ currentSleeper > 1) ~> (part = "timer" => sleepers[1].pc = "ended")

\* Values sent on one side of a netchan channel are received at the other, up
\* to the count it was imported with; and the end of the connection, and a close
\* at the other side, close the channel that a program receives on.  Over net.Pipe
\* the two sides may come to wait for each other instead.
NetDelivers ==
  /\ NetbufFairness => \A c \in {"d", "u"} : (part = "netbuf" /\ NX!Underway(c, 1))
                                 ~> (part = "netbuf" => NX!Arrived(c, 1))
  /\ NetpipeFairness => \A c \in {"d", "u"} : (part = "netpipe" /\ NB!Underway(c, 1))
                                 ~> (part = "netpipe" => NB!Arrived(c, 1) \/ NB!Jammed)
  /\ NetconnFairness =>
       /\ (part = "netconn" /\ NF!Underway("d", 2)) ~> (part = "netconn" => NF!Arrived("d", 2))
       /\ (part = "netconn" /\ NF!ImportBroken("d")) ~> (part = "netconn" => dst["d"].closed)
       /\ (part = "netconn" /\ NF!ClosedFar("d"))
            ~> (part = "netconn" => dst["d"].closed \/ NF!Dead)
  /\ NetupFairness =>
       /\ (part = "netup" /\ NU!Underway("u", 2)) ~> (part = "netup" => NU!Arrived("u", 2))
       /\ (part = "netup" /\ NU!ClosedFar("u")) ~> (part = "netup" => dst["u"].closed \/ NU!Dead)
  /\ NetcountFairness => ((part = "netcount" /\ NC!Underway("d", 3))
                            ~> (part = "netcount" => NC!Arrived("d", 3)))

\* Every rpc call ends.
EveryCallEnds ==
  RpcFairness =>
    ((part = "rpc" /\ pc["c1"] # "idle") ~> (part = "rpc" => pc["c1"] = "done" \/ panic))

\* The multilevel queue starves no process that only computes.
RunnableRuns ==
  SchedFairness =>
    \A p \in {InitProc, UserMain} :
      (part = "sched" /\ state[p] = "RUNNABLE") ~> (part = "sched" => current = p)

\* A zombie whose parent is initproc is freed, unless initproc has been killed and
\* the kernel has panicked.
OrphansReaped ==
  LifeFairness =>
    \A p \in Procs \ {InitProc} :
      (part = "life" /\ state[p] = "ZOMBIE" /\ parent[p] = InitProc)
        ~> (part = "life" => state[p] = "UNUSED" \/ L!Panicked)

\* get_pid's walk through the list ends.
WalkEnds == PidFairness => ((part = "pid" /\ scanner # 0) ~> (scanner = 0))
=============================================================================
