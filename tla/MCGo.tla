-------------------------------- MODULE MCGo --------------------------------
(***************************************************************************)
(* The Go side, each component checked by itself in one run: the runtime's *)
(* goroutine scheduler and channels, and packages container/heap, time,    *)
(* netchan and rpc. The variable part chooses the component; the variables *)
(* of the others stay 0.                                                   *)
(***************************************************************************)
EXTENDS Integers, Sequences, TLC, ChanCalls

CONSTANTS Gs, None

VARIABLES part,  \* the component
          s, t, now, timers, f, pc, ns, currentSleeper, sleepers, prompt,
          names, chans, src, dst, tx, rx, wire, run, cur, seqNum, ackNum,
          encLock, mu, seqLock, chanLock, conn, errors, imported, hung, panic, sent, got, hchan,
          owner, selgen, call, param, readied, wakes, outcome, wokenFor,
          passedOn, lost, towake, waiting, gcsema, resized, kind, seqOf,
          result, times, seq, pending, closing, shutdown, csending, input,
          current, requests, responses, serve, reading, jobs, ssending, open

allvars == <<part, s, t, now, timers, f, pc, ns, currentSleeper, sleepers, prompt,
            names, chans, src, dst, tx, rx, wire, run, cur, seqNum, ackNum,
            encLock, mu, seqLock, chanLock, conn, errors, imported, hung, panic, sent, got, hchan,
            owner, selgen, call, param, readied, wakes, outcome, wokenFor,
            passedOn, lost, towake, waiting, gcsema, resized, kind, seqOf,
            result, times, seq, pending, closing, shutdown, csending, input,
            current, requests, responses, serve, reading, jobs, ssending,
            open>>

H == INSTANCE HeapOps WITH MaxElems <- 6, MaxKey <- 2
T == INSTANCE GoTimer WITH Ts <- Gs, Sentinel <- None, MaxSleepTime <- 1, MaxNow <- 2
\* netchan with channels both ways while the connection fails, which holds just as
\* many items as the channels have credits,
NF == INSTANCE Netchan WITH Chans <- {"d", "u"}, Count <- -1, MaxVals <- 1, Faults <- {"conn"},
                           Down <- {"d"}, Size <- 1, Cap <- 1, ErrCap <- 1, Buffer <- 2
\* while the channels are closed,
NX == INSTANCE Netchan WITH Chans <- {"d", "u"}, Count <- -1, MaxVals <- 1, Faults <- {"close"},
                           Down <- {"d"}, Size <- 1, Cap <- 1, ErrCap <- 1, Buffer <- 2
\* with hang-ups before and after the only value, over net.Pipe,
NH == INSTANCE Netchan WITH Chans <- {"d", "u"}, Count <- 1, MaxVals <- 1,
                           Faults <- {"hangup"}, Down <- {"d"}, Size <- 1, Cap <- 1, ErrCap <- 1,
                           Buffer <- 0
\* and one channel with a count.
NC == INSTANCE Netchan WITH Chans <- {"d"}, Count <- 3, MaxVals <- 4,
                           Faults <- {"close", "conn"}, Down <- {"d"}, Size <- 2, Cap <- 1, ErrCap <- 1,
                           Buffer <- 0
\* Two channels share the sequence numbers.
NT == INSTANCE Netchan WITH Chans <- {"d", "e"}, Count <- -1, MaxVals <- 2,
                           Faults <- {}, Down <- {"d", "e"}, Size <- 1, Cap <- 1, ErrCap <- 1,
                           Buffer <- 0
\* Channels, on the instances of ChanCalls.
XM == INSTANCE Chan WITH Gs <- ChanGs, Chans <- {1, 2}, dataqsiz <- SizesMixed,
                      Calls <- CallsMixed, Vals <- {"a", "b", "c", "d"}, SelGens <- 2, result <- outcome
XS == INSTANCE Chan WITH Gs <- ChanGs, Chans <- {1, 2}, dataqsiz <- SizesSync,
                      Calls <- CallsSync, Vals <- {"a", "b", "c", "d"}, SelGens <- 2, result <- outcome
XC == INSTANCE Chan WITH Gs <- ChanGs, Chans <- {1, 2}, dataqsiz <- SizesMixed,
                      Calls <- CallsClose, Vals <- {"a", "b", "c", "d"}, SelGens <- 2, result <- outcome
XB == INSTANCE Chan WITH Gs <- ChanGs, Chans <- {1, 2}, dataqsiz <- SizesMixed,
                      Calls <- CallsBuffer, Vals <- {"a", "b", "c", "d"}, SelGens <- 2, result <- outcome
\* Two goroutines that change GOMAXPROCS,
G2 == INSTANCE GoSched WITH Gs <- {"g1", "g2"}, Main <- "g1", Ms <- 0 .. 2, gomaxprocs0 <- 2,
                         Procs <- {1, 2}, Wired <- {"g2"}
\* and three that share one processor.
G3 == INSTANCE GoSched WITH Gs <- {"g1", "g2", "g3"}, Main <- "g1", Ms <- 0 .. 3, gomaxprocs0 <- 1,
                         Procs <- {}, Wired <- {}
R == INSTANCE Rpc WITH Calls <- {"c1", "c2"}

-----------------------------------------------------------------------------
\* The variables by the components that use them.  They are 0 in the others.
timerVars == <<now, timers, f, ns, currentSleeper, sleepers, prompt>>
timerOff == now = 0 /\ timers = 0 /\ f = 0 /\ ns = 0 /\ currentSleeper = 0
            /\ sleepers = 0 /\ prompt = 0
netVars == <<names, chans, src, dst, tx, rx, wire, run, cur, seqNum, ackNum,
            encLock, mu, seqLock, chanLock, conn, errors, imported, hung, sent, got>>
netOff == names = 0 /\ chans = 0 /\ src = 0 /\ dst = 0 /\ tx = 0 /\ rx = 0
          /\ wire = 0 /\ run = 0 /\ cur = 0 /\ seqNum = 0 /\ ackNum = 0 /\ encLock = 0 /\ mu = 0 /\
          seqLock = 0 /\ chanLock = 0 /\ conn = 0 /\ errors = 0 /\ imported = 0 /\ hung = 0
          /\ sent = 0 /\ got = 0
chanVars == <<hchan, owner, selgen, call, param, readied, wakes, outcome,
             wokenFor, passedOn, lost>>
chanOff == hchan = 0 /\ owner = 0 /\ selgen = 0 /\ call = 0 /\ param = 0 /\
           readied = 0 /\ wakes = 0 /\ outcome = 0 /\ wokenFor = 0 /\
           passedOn = 0 /\ lost = 0
goschedVars == <<towake, waiting, gcsema, resized>>
goschedOff == towake = 0 /\ waiting = 0 /\ gcsema = 0 /\ resized = 0
rpcVars == <<kind, seqOf, result, times, seq, pending, closing, shutdown,
            csending, input, current, requests, responses, serve, reading,
            jobs, ssending, open>>
rpcOff == kind = 0 /\ seqOf = 0 /\ result = 0 /\ times = 0 /\ seq = 0 /\
          pending = 0 /\ closing = 0 /\ shutdown = 0 /\ csending = 0 /\
          input = 0 /\ current = 0 /\ requests = 0 /\ responses = 0 /\
          serve = 0 /\ reading = 0 /\ jobs = 0 /\ ssending = 0 /\ open = 0

HeapInit == /\ part = "heap" /\ H!Init
            /\ timerOff /\ pc = 0 /\ netOff /\ panic = 0 /\ chanOff /\
               goschedOff /\ rpcOff
HeapNext == /\ part = "heap" /\ H!Next
            /\ UNCHANGED <<part, timerVars, pc, netVars, panic, chanVars,
                           goschedVars, rpcVars>>

TimerInit == /\ part = "timer" /\ T!Init
             /\ s = 0 /\ netOff /\ panic = 0 /\ chanOff /\ goschedOff /\
                rpcOff
TimerNext == /\ part = "timer" /\ T!Next
             /\ UNCHANGED <<part, s, netVars, panic, chanVars, goschedVars, rpcVars>>

NetfailInit == /\ part = "netfail" /\ NF!Init
               /\ s = 0 /\ t = 0 /\ timerOff /\ pc = 0 /\ chanOff /\
                  goschedOff /\ rpcOff
NetfailNext == /\ part = "netfail" /\ NF!Next
               /\ UNCHANGED <<part, s, t, timerVars, pc, chanVars, goschedVars,
                              rpcVars>>

NetcloseInit == /\ part = "netclose" /\ NX!Init
                /\ s = 0 /\ t = 0 /\ timerOff /\ pc = 0 /\ chanOff /\
                   goschedOff /\ rpcOff
NetcloseNext == /\ part = "netclose" /\ NX!Next
                /\ UNCHANGED <<part, s, t, timerVars, pc, chanVars, goschedVars,
                               rpcVars>>

NethangInit == /\ part = "nethang" /\ NH!Init
               /\ s = 0 /\ t = 0 /\ timerOff /\ pc = 0 /\ chanOff /\
                  goschedOff /\ rpcOff
NethangNext == /\ part = "nethang" /\ NH!Next
               /\ UNCHANGED <<part, s, t, timerVars, pc, chanVars, goschedVars,
                              rpcVars>>

NetcountInit == /\ part = "netcount" /\ NC!Init
                /\ s = 0 /\ t = 0 /\ timerOff /\ pc = 0 /\ chanOff /\
                   goschedOff /\ rpcOff
NetcountNext == /\ part = "netcount" /\ NC!Next
                /\ UNCHANGED <<part, s, t, timerVars, pc, chanVars, goschedVars,
                               rpcVars>>

NettwoInit == /\ part = "nettwo" /\ NT!Init
              /\ s = 0 /\ t = 0 /\ timerOff /\ pc = 0 /\ chanOff /\
                 goschedOff /\ rpcOff
NettwoNext == /\ part = "nettwo" /\ NT!Next
              /\ UNCHANGED <<part, s, t, timerVars, pc, chanVars, goschedVars,
                             rpcVars>>

ChanmixedInit == /\ part = "chanmixed" /\ XM!Init
                 /\ s = 0 /\ t = 0 /\ timerOff /\ netOff /\ panic = 0 /\
                    goschedOff /\ rpcOff
ChanmixedNext == /\ part = "chanmixed" /\ XM!Next
                 /\ UNCHANGED <<part, s, t, timerVars, netVars, panic, goschedVars,
                                rpcVars>>

ChansyncInit == /\ part = "chansync" /\ XS!Init
                /\ s = 0 /\ t = 0 /\ timerOff /\ netOff /\ panic = 0 /\
                   goschedOff /\ rpcOff
ChansyncNext == /\ part = "chansync" /\ XS!Next
                /\ UNCHANGED <<part, s, t, timerVars, netVars, panic, goschedVars,
                               rpcVars>>

ChancloseInit == /\ part = "chanclose" /\ XC!Init
                 /\ s = 0 /\ t = 0 /\ timerOff /\ netOff /\ panic = 0 /\
                    goschedOff /\ rpcOff
ChancloseNext == /\ part = "chanclose" /\ XC!Next
                 /\ UNCHANGED <<part, s, t, timerVars, netVars, panic, goschedVars,
                                rpcVars>>

ChanbufferInit == /\ part = "chanbuffer" /\ XB!Init
                  /\ s = 0 /\ t = 0 /\ timerOff /\ netOff /\ panic = 0 /\
                     goschedOff /\ rpcOff
ChanbufferNext == /\ part = "chanbuffer" /\ XB!Next
                  /\ UNCHANGED <<part, s, t, timerVars, netVars, panic,
                                 goschedVars, rpcVars>>

GoschedInit == /\ part = "gosched" /\ G2!Init
               /\ t = 0 /\ timerOff /\ netOff /\ panic = 0 /\ chanOff /\
                  rpcOff
GoschedNext == /\ part = "gosched" /\ G2!Next
               /\ UNCHANGED <<part, t, timerVars, netVars, panic, chanVars, rpcVars>>

Gosched3Init == /\ part = "gosched3" /\ G3!Init
                /\ t = 0 /\ timerOff /\ netOff /\ panic = 0 /\ chanOff /\
                   rpcOff
Gosched3Next == /\ part = "gosched3" /\ G3!Next
                /\ UNCHANGED <<part, t, timerVars, netVars, panic, chanVars,
                               rpcVars>>

RpcInit == /\ part = "rpc" /\ R!Init
           /\ s = 0 /\ t = 0 /\ timerOff /\ netOff /\ chanOff /\ goschedOff
RpcNext == /\ part = "rpc" /\ R!Next
           /\ UNCHANGED <<part, s, t, timerVars, netVars, chanVars, goschedVars>>

Init == HeapInit \/ TimerInit \/ NetfailInit \/ NetcloseInit \/ NethangInit \/ NetcountInit
        \/ NettwoInit \/ ChanmixedInit \/ ChansyncInit \/ ChancloseInit \/
        ChanbufferInit \/ GoschedInit \/ Gosched3Init \/ RpcInit
Next == HeapNext \/ TimerNext \/ NetfailNext \/ NetcloseNext \/ NethangNext \/ NetcountNext
        \/ NettwoNext \/ ChanmixedNext \/ ChansyncNext \/ ChancloseNext \/
        ChanbufferNext \/ GoschedNext \/ Gosched3Next \/ RpcNext

Spec == Init /\ [][Next]_allvars

\* A select and a receiver that wait for one buffered channel, by themselves.
MixedSpec == ChanmixedInit /\ [][ChanmixedNext]_allvars

ASSUME /\ XM!ChanAssumption /\ XS!ChanAssumption /\ XC!ChanAssumption /\ XB!ChanAssumption
       /\ G2!GoSchedAssumption /\ G3!GoSchedAssumption

\* Timers are interchangeable.
GoSymmetry == Permutations(Gs)

-----------------------------------------------------------------------------
\* The array of container/heap stays a heap, elements know their places, and Pop
\* takes the minimum out.
PopIsLeast == /\ part = "heap" => H!StaysHeap
              /\ [][part = "heap" => H!OpStep]_allvars

\* The timers are a heap, the current sleeper watches them, and a timer is
\* served when it is due, however few sleepers after starts.
TimerSound == part = "timer" => T!TimerSound

\* Netchan delivers values in order, without a gap and within its credits.
NetSound == /\ part = "netfail" => NF!NetSound
            /\ part = "netclose" => NX!NetSound
            /\ part = "nethang" => NH!NetSound
            /\ part = "netcount" => NC!NetSound
            /\ part = "nettwo" => NT!NetSound

\* Sends, receives, selects and closes of channels miss no partner, wake nobody
\* twice and leave nothing behind.
ChanSound == /\ part = "chanmixed" => XM!ChanSound
             /\ part = "chansync" => XS!ChanSound
             /\ part = "chanclose" => XC!ChanSound
             /\ part = "chanbuffer" => XB!ChanSound

\* chan.c:42: recvq is the list of recv waiters, and sendq that of send waiters.
ListsOfWaiters == part = "chanmixed" => XM!ListsOfWaiters

\* chan.c implements Channels.
ChannelSpec ==
  /\ part = "chanmixed" => XM!A!Init
  /\ part = "chansync" => XS!A!Init
  /\ part = "chanclose" => XC!A!Init
  /\ part = "chanbuffer" => XB!A!Init
  /\ [][part = "chanmixed" => XM!A!Next \/ UNCHANGED XM!A!vars]_allvars
  /\ [][part = "chansync" => XS!A!Next \/ UNCHANGED XS!A!vars]_allvars
  /\ [][part = "chanclose" => XC!A!Next \/ UNCHANGED XC!A!vars]_allvars
  /\ [][part = "chanbuffer" => XB!A!Next \/ UNCHANGED XB!A!vars]_allvars

\* The goroutine scheduler keeps its counts, loses no goroutine and no processor,
\* stops the world for the collector and reports every deadlock.
GoSchedSound == /\ part = "gosched" => G2!GoSchedSound
                /\ part = "gosched3" => G3!GoSchedSound

\* Every call of package rpc is completed at most once, with its own answer.
RpcSound == part = "rpc" => R!RpcSound
=============================================================================
