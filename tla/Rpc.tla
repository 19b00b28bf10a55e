--------------------------------- MODULE Rpc --------------------------------
(***************************************************************************)
(* Package rpc (pkg/rpc/client.go, server.go): one client, the server's    *)
(* loop for its connection, and a goroutine of the server for each request *)
(* it accepts.  A request or a response is a header and a body, encoded    *)
(* one after the other.  Calls are identified by the goroutine that makes  *)
(* them; each makes one.                                                   *)
(***************************************************************************)
EXTENDS Integers, Sequences, FiniteSets

CONSTANTS Calls,  \* the calls
          None    \* nobody

VARIABLES
  pc,        \* where a call is in Go and send; "done" when its Done was sent to
  kind,      \* the method: it succeeds, it returns an error, it does not exist
  seqOf,     \* call.seq
  result,    \* call.Reply and call.Error
  times,     \* how often done was called
  seq,       \* client.seq
  pending,   \* client.pending, a set of calls
  closing,   \* client.closing
  shutdown,  \* client.shutdown
  csending,  \* the holder of client.sending
  input,     \* the client's input: header, body, ending, dead
  current,   \* the call whose response input reads
  requests,  \* the stream to the server
  responses, \* the stream to the client
  serve,     \* ServeCodec: header, body, reply, dead
  reading,   \* the request ServeCodec reads
  jobs,      \* service.call goroutines: seq, argument, outcome, and where each is
  ssending,  \* the holder of the server's sending
  open,      \* the connection: the client's end, the server's end
  panic      \* WriteRequest failed

client == <<pc, kind, seqOf, result, times, seq, pending, closing, shutdown, csending>>
loop == <<input, current>>
server == <<serve, reading, jobs, ssending>>
wires == <<requests, responses, open>>
vars == <<client, loop, server, wires, panic>>

Init == /\ pc = [c \in Calls |-> "idle"]
        /\ kind \in [Calls -> {"ok", "fails", "unknown"}]
        /\ seqOf = [c \in Calls |-> None]
        /\ result = [c \in Calls |-> None]
        /\ times = [c \in Calls |-> 0]
        /\ seq = 0 /\ pending = {} /\ closing = FALSE /\ shutdown = FALSE
        /\ csending = None /\ input = "header" /\ current = None
        /\ requests = <<>> /\ responses = <<>>
        /\ serve = "header" /\ reading = None /\ jobs = {} /\ ssending = None
        /\ open = {"client", "server"} /\ panic = FALSE

-----------------------------------------------------------------------------
Head1(n, k) == [part |-> "header", seq |-> n, kind |-> k]
Body(a) == [part |-> "body", arg |-> a]   \* Args, or the reply to them
Outcome(e, n, b) == [error |-> e, header |-> n, body |-> b]
ErrShutdown == Outcome("ErrShutdown", None, None)

\* call.done with an outcome, for a set of calls.
Done(cs, outcome) ==
  /\ pc' = [c \in Calls |-> IF c \in cs /\ pc[c] = "wait" THEN "done" ELSE pc[c]]
  /\ result' = [c \in Calls |-> IF c \in cs THEN outcome ELSE result[c]]
  /\ times' = [c \in Calls |-> IF c \in cs THEN times[c] + 1 ELSE times[c]]

\* Client.Go: its test of shutdown, without the mutex.
Go(c) ==
  /\ ~panic /\ pc[c] = "idle"
  /\ \/ /\ shutdown
        /\ pc' = [pc EXCEPT ![c] = "done"]
        /\ result' = [result EXCEPT ![c] = ErrShutdown]
        /\ times' = [times EXCEPT ![c] = @ + 1]
     \/ ~shutdown /\ pc' = [pc EXCEPT ![c] = "send"] /\ UNCHANGED <<result, times>>
  /\ UNCHANGED <<kind, seqOf, seq, pending, closing, shutdown, csending>>
  /\ UNCHANGED <<loop, server, wires, panic>>

\* send's registration without the second test of shutdown.
RegisterBlindly(c) ==
  /\ ~panic /\ pc[c] = "send"
  /\ seqOf' = [seqOf EXCEPT ![c] = seq] /\ seq' = seq + 1
  /\ pending' = pending \union {c}
  /\ pc' = [pc EXCEPT ![c] = "header"]
  /\ UNCHANGED <<kind, result, times, closing, shutdown, csending>>
  /\ UNCHANGED <<loop, server, wires, panic>>

\* send: register this call, under the mutex.
Register(c) ==
  /\ ~panic /\ pc[c] = "send"
  /\ \/ /\ shutdown
        /\ pc' = [pc EXCEPT ![c] = "done"]
        /\ result' = [result EXCEPT ![c] = ErrShutdown]
        /\ times' = [times EXCEPT ![c] = @ + 1]
        /\ UNCHANGED <<seqOf, seq, pending>>
     \/ /\ ~shutdown
        /\ seqOf' = [seqOf EXCEPT ![c] = seq] /\ seq' = seq + 1
        /\ pending' = pending \union {c}
        /\ pc' = [pc EXCEPT ![c] = "header"]
        /\ UNCHANGED <<result, times>>
  /\ UNCHANGED <<kind, closing, shutdown, csending>>
  /\ UNCHANGED <<loop, server, wires, panic>>

\* send: WriteRequest under client.sending.  A failure panics.
WriteHeader(c) ==
  /\ ~panic /\ pc[c] = "header" /\ csending = None
  /\ \/ open # {"client", "server"} /\ panic' = TRUE /\ UNCHANGED <<requests, pc, csending>>
     \/ /\ open = {"client", "server"} /\ csending' = c
        /\ requests' = Append(requests, Head1(seqOf[c], kind[c]))
        /\ pc' = [pc EXCEPT ![c] = "body"] /\ UNCHANGED panic
  /\ UNCHANGED <<kind, seqOf, result, times, seq, pending, closing, shutdown>>
  /\ UNCHANGED <<loop, server, responses, open>>

\* A call may be done before send returns.
WriteBody(c) ==
  /\ ~panic /\ pc[c] = "body" /\ csending' = None
  /\ \/ open # {"client", "server"} /\ panic' = TRUE /\ UNCHANGED <<requests, pc>>
     \/ /\ open = {"client", "server"}
        /\ requests' = Append(requests, Body(c))
        /\ pc' = [pc EXCEPT ![c] = IF times[c] = 0 THEN "wait" ELSE "done"]
        /\ UNCHANGED panic
  /\ UNCHANGED <<kind, seqOf, result, times, seq, pending, closing, shutdown>>
  /\ UNCHANGED <<loop, server, responses, open>>

\* Client.Close; the mutex is given up before the connection is closed, which
\* nothing can tell from closing it at once.
Close == /\ ~panic /\ ~shutdown /\ ~closing /\ closing' = TRUE
         /\ open' = open \ {"client"}
         /\ UNCHANGED <<pc, kind, seqOf, result, times, seq, pending, shutdown, csending>>
         /\ UNCHANGED <<loop, server, requests, responses, panic>>

-----------------------------------------------------------------------------
(* Client.input.                                                           *)

\* A response header: its call leaves pending.
ReadResponseHeader ==
  /\ ~panic /\ input = "header" /\ responses # <<>> /\ "client" \in open
  /\ \E c \in pending : seqOf[c] = Head(responses).seq /\ current' = c
  /\ pending' = pending \ {current'}
  /\ result' = [result EXCEPT ![current'] =
                  Outcome(Head(responses).kind, Head(responses).seq, None)]
  /\ responses' = Tail(responses) /\ input' = "body"
  /\ UNCHANGED <<pc, kind, seqOf, times, seq, closing, shutdown, csending>>
  /\ UNCHANGED <<server, requests, open, panic>>

\* Its body; a connection that ends here ends the call with an error too, its
\* own if the response was one.
ReadResponseBody ==
  /\ ~panic /\ input = "body"
  /\ \/ /\ responses # <<>> /\ "client" \in open
        /\ responses' = Tail(responses) /\ input' = "header"
        /\ Done({current}, [result[current] EXCEPT !.body = Head(responses).arg])
     \/ /\ "client" \notin open \/ (responses = <<>> /\ "server" \notin open)
        /\ input' = "ending"
        /\ Done({current}, IF result[current].error # "ok" THEN result[current]
                           ELSE Outcome("reading body", None, None))
        /\ UNCHANGED responses
  /\ current' = None
  /\ UNCHANGED <<kind, seqOf, seq, pending, closing, shutdown, csending>>
  /\ UNCHANGED <<server, requests, open, panic>>

ReadEOF ==
  /\ ~panic /\ input = "header"
  /\ "client" \notin open \/ (responses = <<>> /\ "server" \notin open)
  /\ input' = "ending"
  /\ UNCHANGED <<client, current, server, wires, panic>>

\* Terminate pending calls; they stay in pending.
Terminate ==
  /\ ~panic /\ input = "ending" /\ input' = "dead"
  /\ shutdown' = TRUE
  /\ Done(pending, Outcome("EOF", None, None))
  /\ UNCHANGED <<kind, seqOf, seq, pending, closing, csending>>
  /\ UNCHANGED <<current, server, wires, panic>>

-----------------------------------------------------------------------------
(* Server.ServeCodec and the goroutines of service.call.                   *)

\* readRequest.  The service and the method are looked up from the header.
ReadRequestHeader ==
  /\ ~panic /\ serve = "header" /\ requests # <<>>
  /\ reading' = Head(requests) /\ requests' = Tail(requests)
  /\ serve' = "body"
  /\ UNCHANGED <<client, loop, jobs, ssending, responses, open, panic>>

\* The argument is decoded and the call started; the body of a request that
\* cannot be served is discarded and answered by ServeCodec itself.
ReadRequestBody ==
  /\ ~panic /\ serve = "body" /\ requests # <<>> /\ requests' = Tail(requests)
  /\ \/ /\ reading.kind = "unknown" /\ serve' = "reply"
        /\ reading' = [seq |-> reading.seq, at |-> "header"]
        /\ UNCHANGED jobs
     \/ /\ reading.kind # "unknown" /\ serve' = "header" /\ reading' = None
        /\ jobs' = jobs \union {[seq |-> reading.seq, arg |-> Head(requests).arg,
                                 kind |-> reading.kind, at |-> "method"]}
  /\ UNCHANGED <<client, loop, ssending, responses, open, panic>>

\* EOF; the loop ends and closes the connection.
ServeEnd ==
  /\ ~panic /\ serve \in {"header", "body"} /\ requests = <<>>
  /\ "client" \notin open
  /\ serve' = "dead" /\ reading' = None /\ open' = open \ {"server"}
  /\ UNCHANGED <<client, loop, jobs, ssending, requests, responses, panic>>

\* The method returns, with a reply or an error.
Return(j) ==
  /\ ~panic /\ j \in jobs /\ j.at = "method"
  /\ jobs' = (jobs \ {j}) \union {[j EXCEPT !.at = "header"]}
  /\ UNCHANGED <<client, loop, serve, reading, ssending, wires, panic>>

\* sendResponse under the server's sending: the header, then the body.  A
\* closed connection is only logged.
Respond(m) == IF open = {"client", "server"} THEN Append(responses, m) ELSE responses

SendHeader(j) ==
  /\ ~panic /\ j \in jobs /\ j.at = "header" /\ ssending = None
  /\ ssending' = j.seq
  /\ jobs' = (jobs \ {j}) \union {[j EXCEPT !.at = "body"]}
  /\ responses' = Respond(Head1(j.seq, j.kind))
  /\ UNCHANGED <<client, loop, serve, reading, requests, open, panic>>

\* sendResponse that keeps sending locked.
SendBodyKeepsLock(j) ==
  /\ ~panic /\ j \in jobs /\ j.at = "body"
  /\ jobs' = jobs \ {j}
  /\ responses' = Respond(Body(IF j.kind = "ok" THEN j.arg ELSE None))
  /\ UNCHANGED <<client, loop, serve, reading, ssending, requests, open, panic>>

SendBody(j) ==
  /\ ~panic /\ j \in jobs /\ j.at = "body" /\ ssending' = None
  /\ jobs' = jobs \ {j}
  /\ responses' = Respond(Body(IF j.kind = "ok" THEN j.arg ELSE None))
  /\ UNCHANGED <<client, loop, serve, reading, requests, open, panic>>

\* The same by ServeCodec for a request it cannot serve.
ReplyHeader ==
  /\ ~panic /\ serve = "reply" /\ reading.at = "header" /\ ssending = None
  /\ ssending' = reading.seq /\ reading' = [reading EXCEPT !.at = "body"]
  /\ responses' = Respond(Head1(reading.seq, "unknown"))
  /\ UNCHANGED <<client, loop, serve, jobs, requests, open, panic>>
ReplyBody ==
  /\ ~panic /\ serve = "reply" /\ reading.at = "body"
  /\ ssending' = None /\ reading' = None /\ serve' = "header"
  /\ responses' = Respond(Body(None))
  /\ UNCHANGED <<client, loop, jobs, requests, open, panic>>

\* The server fails.
ServerGone == /\ ~panic /\ serve # "dead" /\ open' = open \ {"server"}
              /\ serve' = "dead" /\ reading' = None /\ jobs' = {} /\ ssending' = None
              /\ UNCHANGED <<client, loop, requests, responses, panic>>

Sends(c) == Go(c) \/ Register(c) \/ WriteHeader(c) \/ WriteBody(c)
Input == ReadResponseHeader \/ ReadResponseBody \/ ReadEOF \/ Terminate
Serve == ReadRequestHeader \/ ReadRequestBody \/ ServeEnd \/ ReplyHeader \/ ReplyBody
Job(j) == Return(j) \/ SendHeader(j) \/ SendBody(j)

Next == \/ \E c \in Calls : Sends(c)
        \/ Close \/ Input \/ Serve \/ (\E j \in jobs : Job(j)) \/ ServerGone

Spec == Init /\ [][Next]_vars

\* Goroutines run, and the methods of the server return.
Steps(c) == Register(c) \/ WriteHeader(c) \/ WriteBody(c)
Fairness == /\ \A c \in Calls : WF_vars(Steps(c))
            /\ WF_vars(Input) /\ WF_vars(Serve) /\ WF_vars(\E j \in jobs : Job(j))
FairSpec == Spec /\ Fairness

-----------------------------------------------------------------------------
TypeOK == /\ pc \in [Calls -> {"idle", "send", "header", "body", "wait", "done"}]
          /\ times \in [Calls -> Nat] /\ seq \in 0 .. Cardinality(Calls)
          /\ seqOf \in [Calls -> (0 .. seq - 1) \union {None}]
          /\ pending \subseteq Calls /\ current \in Calls \union {None}
          /\ csending \in Calls \union {None}
          /\ ssending \in (0 .. seq - 1) \union {None}
          /\ input \in {"header", "body", "ending", "dead"}
          /\ serve \in {"header", "body", "reply", "dead"}

\* The two streams are pairs of a header and its body, whoever is encoding at
\* the same time, so that each decoder finds a header where it expects one and
\* the body that belongs to it (client.sending, the server's sending).
Pairs(s) == \A i \in DOMAIN s :
               \/ /\ s[i].part = "header"
                  /\ i < Len(s) => /\ s[i + 1].part = "body"
                                   /\ s[i + 1].arg # None => seqOf[s[i + 1].arg] = s[i].seq
               \/ s[i].part = "body" /\ (i > 1 => s[i - 1].part = "header")
Framed == /\ Pairs(requests) /\ Pairs(responses)
          /\ (requests # <<>> /\ serve \in {"header", "body"})
               => Head(requests).part = serve
          /\ (responses # <<>> /\ input \in {"header", "body"})
               => Head(responses).part = input

\* Every response that input can read is to a call that is pending: the lookup
\* at client.go:105 never gives nil, which input would dereference.
ResponseHasCall ==
  input \in {"header", "body"} =>
    \A i \in DOMAIN responses : responses[i].part = "header" =>
       \E c \in pending : seqOf[c] = responses[i].seq

\* A call is completed at most once, though input, its termination of pending
\* calls and send all call done.
DoneOnce == \A c \in Calls : times[c] <= 1

\* Responses come in any order: a call that ends with the method's outcome has
\* that of its own request.
RightAnswer ==
  \A c \in Calls :
    (times[c] = 1 /\ result[c].header # None) =>
      /\ result[c].error = kind[c] /\ result[c].header = seqOf[c]
      /\ result[c].body = IF kind[c] = "ok" THEN c ELSE None

\* When input is gone nobody waits for it: a call registered before shutdown
\* was terminated, a later one is refused (the test under the mutex in send).
NobodyForgotten ==
  input = "dead" => \A c \in Calls : pc[c] \in {"header", "body", "wait"} => times[c] = 1

\* Every call ends, by its response, by the end of the connection or with
\* ErrShutdown, unless a request could not be encoded.
EveryCallEnds == \A c \in Calls : (pc[c] # "idle") ~> (pc[c] = "done" \/ panic)

\* Whatever order requests, responses, Close and the end of the connection come
\* in, each call is completed at most once, with its own answer, and none is
\* forgotten.
RpcSound == /\ TypeOK /\ Framed /\ ResponseHasCall
            /\ DoneOnce /\ RightAnswer /\ NobodyForgotten
=============================================================================
