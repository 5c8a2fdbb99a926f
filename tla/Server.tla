------------------------------- MODULE Server -------------------------------
(***************************************************************************)
(* The daemon: UnixSocketServer around the resource manager, the model     *)
(* registry and residency, the metrics and the node registry: the accept   *)
(* loop of run(), one thread per connection, and the shutdown.  The        *)
(* threads that may wait in acquire are the session threads; the managers' *)
(* actions are used unchanged.                                             *)
(*                                                                         *)
(* A session reads lines and answers them one by one; only between two     *)
(* reads does it look at stop_requested_.  What a line says is chosen when *)
(* it is dispatched; how a line is told from the next is Exchange's matter.*)
(* The operation, the two calls that record it and the answer are steps of *)
(* their own, between which other sessions run.                            *)
(***************************************************************************)
EXTENDS ModelResidency, Metrics, NodeRegistry

CONSTANTS MaxLines,  \* bound on the lines that all clients send
          NodeIds,   \* ids of nodes that clients pass
          Recording, \* metrics_ is not null
          NothingDue

ASSUME ServerAssumption == MaxLines \in Nat /\ Recording \in BOOLEAN

VARIABLES run,        \* where run() is
          stop,       \* stop_requested_
          signalled,  \* what external_stop() returns
          path,       \* who owns the file at socket_path_
          session,    \* where each session thread is
          peer,       \* whether its client has closed the connection
          sent,       \* how many lines all clients have sent
          unread,     \* the lines on the socket of each session
          input,      \* the complete lines in its client.input
          due         \* what its last operation has still to record

managers == <<residencyVars, nodes>>
flags == <<stop, signalled>>
connection == <<peer, sent, unread>>
records_due == <<metrics, due>>
serverVars == <<managers, run, flags, path, session, connection, input, records_due>>

-----------------------------------------------------------------------------

ServerInit ==
    /\ ResidencyInit
    /\ MetricsInit
    /\ NodesInit
    /\ run = "idle"
    /\ stop = FALSE
    /\ signalled = FALSE
    /\ path \in {"absent", "other"}
    /\ session = [s \in Threads |-> "none"]
    /\ peer = [s \in Threads |-> "open"]
    /\ sent = 0
    /\ unread = [s \in Threads |-> 0]
    /\ input = [s \in Threads |-> 0]
    /\ due = [s \in Threads |-> NothingDue]

-----------------------------------------------------------------------------
(***************************************************************************)
(* run().                                                                  *)
(***************************************************************************)

Start ==
    /\ run = "idle"
    /\ run' = "checkPath"
    /\ stop' = FALSE
    /\ UNCHANGED <<managers, records_due, signalled, path, session, connection, input>>

\* lstat: a path that exists is refused.
CheckPath ==
    /\ run = "checkPath"
    /\ run' = IF path = "absent" THEN "bind" ELSE "failed"
    /\ UNCHANGED <<managers, records_due, flags, path, session, connection, input>>

\* Mutant: a bind that fails removes the path.
BindUnlinks ==
    /\ run = "bind"
    /\ \/ path = "absent" /\ path' = "ours" /\ run' = "listen"
       \/ path' = "absent" /\ run' = "failed"
    /\ UNCHANGED <<managers, records_due, flags, session, connection, input>>

\* socket and bind; bind refuses a path that has appeared in the meantime.
Bind ==
    /\ run = "bind"
    /\ \/ path = "absent" /\ path' = "ours" /\ run' = "listen"
       \/ UNCHANGED path /\ run' = "failed"
    /\ UNCHANGED <<managers, records_due, flags, session, connection, input>>

\* chmod, listen and fcntl.
Listen ==
    /\ run = "listen"
    /\ \/ UNCHANGED path /\ run' = "polling"
       \/ path' = "absent" /\ run' = "failed"
    /\ UNCHANGED <<managers, records_due, flags, session, connection, input>>

\* The head of the accept loop and its poll; a poll that times out is repeated.
Poll ==
    /\ run = "polling"
    /\ stop' = (stop \/ signalled)
    /\ \/ stop' /\ run' = "closing"
       \/ /\ ~ stop'
          /\ \E s \in Threads : session[s] = "backlog"
          /\ run' = "accepting"
    /\ UNCHANGED <<managers, records_due, signalled, path, session, connection, input>>

\* The loop ends and the flag stays clear.
PollFails ==
    /\ run = "polling"
    /\ ~ stop /\ ~ signalled
    /\ run' = "closing"
    /\ UNCHANGED <<managers, records_due, flags, path, session, connection, input>>

\* One iteration of the loop that drains the backlog; accept may fail.
Accept ==
    /\ run = "accepting"
    /\ \/ /\ ~ stop
          /\ \E s \in Threads :
                session[s] = "backlog" /\ session' = [session EXCEPT ![s] = "checking"]
          /\ UNCHANGED run
       \/ run' = "polling" /\ UNCHANGED session
    /\ UNCHANGED <<managers, records_due, flags, path, connection, input>>

\* Closing the listener drops the connections that were never accepted.
CloseListener ==
    /\ run = "closing"
    /\ run' = "cancelling"
    /\ session' = [s \in Threads |->
                     IF session[s] = "backlog" THEN "done" ELSE session[s]]
    /\ UNCHANGED <<managers, records_due, flags, path, connection, input>>

Cancel ==
    /\ run = "cancelling"
    /\ run' = "joining"
    /\ CancelWaiters
    /\ UNCHANGED <<residency, model_reply, nodes, records_due, flags, path, session,
                   connection, input>>

\* Mutant: the workers are detached instead of joined.
JoinNobody ==
    /\ run = "joining"
    /\ run' = "stopped"
    /\ path' = "absent"
    /\ UNCHANGED <<managers, records_due, flags, session, connection, input>>

\* Join every worker, then unlink.
Join ==
    /\ run = "joining"
    /\ \A s \in Threads : session[s] \in {"none", "done"}
    /\ run' = "stopped"
    /\ path' = "absent"
    /\ UNCHANGED <<managers, records_due, flags, session, connection, input>>

Run == CheckPath \/ Bind \/ Listen \/ Poll \/ Accept \/ CloseListener \/ Cancel \/ Join

-----------------------------------------------------------------------------
(***************************************************************************)
(* client_session and process_input.                                       *)
(***************************************************************************)

Goto(s, place) == session' = [session EXCEPT ![s] = place]

\* Mutant: the session goes on for as long as its client does.
CheckNothing(s) ==
    /\ session[s] = "checking"
    /\ Goto(s, "reading")
    /\ UNCHANGED <<managers, records_due, run, flags, path, connection, input>>

CheckStop(s) ==
    /\ session[s] = "checking"
    /\ Goto(s, IF stop THEN "done" ELSE "reading")
    /\ UNCHANGED <<managers, records_due, run, flags, path, connection, input>>

\* Mutant: what is read is not consumed, and is read again.
ReadAgain(s) ==
    /\ session[s] = "reading"
    /\ \/ \E n \in 1 .. unread[s] :
             /\ input' = [input EXCEPT ![s] = @ + n]
             /\ Goto(s, "processing")
             /\ UNCHANGED unread
       \/ /\ unread[s] = 0
          /\ Goto(s, IF peer[s] = "closed" THEN "done" ELSE "checking")
          /\ UNCHANGED <<unread, input>>
    /\ UNCHANGED <<managers, records_due, run, flags, path, peer, sent>>

\* Mutant: the end of the stream is taken for the timeout.
ReadPastEnd(s) ==
    /\ session[s] = "reading"
    /\ \/ \E n \in 1 .. unread[s] :
             /\ unread' = [unread EXCEPT ![s] = @ - n]
             /\ input' = [input EXCEPT ![s] = @ + n]
             /\ Goto(s, "processing")
       \/ /\ unread[s] = 0
          /\ Goto(s, "checking")
          /\ UNCHANGED <<unread, input>>
    /\ UNCHANGED <<managers, records_due, run, flags, path, peer, sent>>

\* Some of the lines sent so far; the timeout; or the end of the stream or a
\* reset, which may come before all lines have been read.
Read(s) ==
    /\ session[s] = "reading"
    /\ \/ \E n \in 1 .. unread[s] :
             /\ unread' = [unread EXCEPT ![s] = @ - n]
             /\ input' = [input EXCEPT ![s] = @ + n]
             /\ Goto(s, "processing")
       \/ /\ unread[s] = 0 /\ peer[s] = "open"
          /\ Goto(s, "checking")
          /\ UNCHANGED <<unread, input>>
       \/ /\ peer[s] = "closed"
          /\ Goto(s, "done")
          /\ UNCHANGED <<unread, input>>
    /\ UNCHANGED <<managers, records_due, run, flags, path, peer, sent>>

\* The operation of s is over: record it and answer, or just answer.
Owe(s, what, success, bytes) ==
    IF Recording
    THEN /\ due' = [due EXCEPT ![s] = [what |-> what, success |-> success, bytes |-> bytes]]
         /\ Goto(s, IF what = "other" THEN "counting" ELSE "recording")
    ELSE Goto(s, "answering") /\ UNCHANGED due

\* An acquire that has to wait has no result yet.
ClientOperation(s) ==
    /\ \/ \E name \in Names, bytes \in Sizes :
             TryAcquire(name, bytes) /\ Owe(s, "acquire", reply' = "None", bytes)
       \/ \E name \in Names :
             /\ Release(name)
             /\ Owe(s, "release", reply' = "None",
                    IF name \in DOMAIN reservations THEN reservations[name] ELSE 0)
       \/ \E name \in Names, bytes \in Sizes, priority \in Priorities,
             cost \in Costs, timeout \in Timeouts :
                /\ Acquire(s, name, bytes, priority, cost, timeout)
                /\ \/ reply' # "NoReply" /\ Owe(s, "acquire", reply' = "None", bytes)
                   \/ reply' = "NoReply" /\ Goto(s, "waiting") /\ UNCHANGED due
    /\ UNCHANGED <<residency, model_reply, nodes>>

\* A load that has got as far as the backend is not over.
ModelOperation(s) ==
    /\ \E id \in ModelIds :
          \/ /\ Load(id)
             /\ \/ loading' = NoLoad /\ Owe(s, "load", model_reply' = "None", 0)
                \/ loading' # NoLoad /\ Goto(s, "loading") /\ UNCHANGED due
          \/ Unload(id) /\ Owe(s, "unload", model_reply' = "None", 0)
          \/ /\ \/ \E bytes \in Sizes, goodPath, goodMetadata \in BOOLEAN :
                      IF id \in FileModels THEN RegisterFile(id, bytes, goodPath, goodMetadata)
                      ELSE RegisterModel(id, bytes, goodMetadata)
                \/ Share(id) \/ Retain(id) \/ ReleaseRef(id) \/ Unregister(id)
             /\ Owe(s, "other", model_reply' = "None", 0)
    /\ UNCHANGED nodes

NodeOperation(s) ==
    /\ \E id \in NodeIds :
          \/ \E capacity \in Sizes \ {0}, goodEndpoint \in BOOLEAN :
                LET error == RegisterNodeError(id, TRUE, goodEndpoint, capacity) IN
                /\ IF error = "None" THEN register_node(id, capacity) ELSE UNCHANGED nodes
                /\ Owe(s, "other", error = "None", 0)
          \/ /\ unregister_node(id)
             /\ Owe(s, "other", KnownNodeError(id) = "None", 0)
    /\ UNCHANGED residencyVars

\* A listing, or a line that does not parse.
Query(s) ==
    /\ \E success \in BOOLEAN : Owe(s, "other", success, 0)
    /\ UNCHANGED managers

Dispatch(s) ==
    /\ session[s] = "processing"
    /\ input[s] > 0
    /\ input' = [input EXCEPT ![s] = @ - 1]
    /\ ClientOperation(s) \/ ModelOperation(s) \/ NodeOperation(s) \/ Query(s)
    /\ UNCHANGED <<metrics, run, flags, path, connection>>

\* A later step of the load of s.
FinishLoad(s) ==
    /\ session[s] = "loading"
    /\ LoadStep
    /\ \/ loading' = NoLoad /\ Owe(s, "load", model_reply' = "None", 0)
       \/ loading' # NoLoad /\ UNCHANGED <<session, due>>
    /\ UNCHANGED <<nodes, metrics, run, flags, path, connection, input>>

RecordOperation(s) ==
    LET success == due[s].success
        bytes == due[s].bytes
    IN
    /\ session[s] = "recording"
    /\ CASE due[s].what = "acquire" -> record_acquire(success, bytes)
         [] due[s].what = "release" -> record_release(success, bytes)
         [] due[s].what = "load" -> record_model_load(success)
         [] due[s].what = "unload" -> record_model_unload(success)
    /\ Goto(s, "counting")
    /\ UNCHANGED <<managers, due, run, flags, path, connection, input>>

\* Mutant: requests are counted when their answer has been sent.
RecordRequestIfHeard(s) ==
    /\ session[s] = "counting"
    /\ IF peer[s] = "open" THEN record_request(due[s].success) ELSE UNCHANGED metrics
    /\ due' = [due EXCEPT ![s] = NothingDue]
    /\ Goto(s, "answering")
    /\ UNCHANGED <<managers, run, flags, path, connection, input>>

RecordRequest(s) ==
    /\ session[s] = "counting"
    /\ record_request(due[s].success)
    /\ due' = [due EXCEPT ![s] = NothingDue]
    /\ Goto(s, "answering")
    /\ UNCHANGED <<managers, run, flags, path, connection, input>>

\* A line that is too long, complete or not, gets an error and the session
\* ends.
TooLarge(s) ==
    /\ session[s] = "processing"
    /\ Goto(s, "done")
    /\ UNCHANGED <<managers, records_due, run, flags, path, connection, input>>

\* No complete line is left.
Processed(s) ==
    /\ session[s] = "processing"
    /\ input[s] = 0
    /\ Goto(s, "checking")
    /\ UNCHANGED <<managers, records_due, run, flags, path, connection, input>>

\* A step inside acquire.  When it returns there is an answer to send.
Wait(s) ==
    /\ session[s] = "waiting"
    /\ \/ (TryAgain(s) \/ WaitTimeout(s)) /\ UNCHANGED <<session, due>>
       \/ Return(s) /\ Owe(s, "acquire", reply' = "None", request[s].bytes)
    /\ UNCHANGED <<residency, model_reply, nodes, metrics, run, flags, path, connection, input>>

\* send_all fails only if the client is gone.
Answer(s) ==
    /\ session[s] = "answering"
    /\ Goto(s, IF peer[s] = "open" THEN "processing" ELSE "done")
    /\ UNCHANGED <<managers, records_due, run, flags, path, connection, input>>

Session(s) ==
    \/ CheckStop(s) \/ Read(s) \/ Dispatch(s) \/ TooLarge(s) \/ Processed(s) \/ Answer(s)
    \/ FinishLoad(s) \/ RecordOperation(s) \/ RecordRequest(s)

-----------------------------------------------------------------------------
(***************************************************************************)
(* Everything around the server.                                           *)
(***************************************************************************)

Connect(s) ==
    /\ session[s] = "none"
    /\ run \in {"polling", "accepting"}
    /\ Goto(s, "backlog")
    /\ UNCHANGED <<managers, records_due, run, flags, path, connection, input>>

SendLine(s) ==
    /\ session[s] \notin {"none", "done"}
    /\ peer[s] = "open"
    /\ sent < MaxLines
    /\ sent' = sent + 1
    /\ unread' = [unread EXCEPT ![s] = @ + 1]
    /\ UNCHANGED <<managers, records_due, run, flags, path, session, peer, input>>

\* Nobody who waits in acquire notices.
HangUp(s) ==
    /\ session[s] \notin {"none", "done"}
    /\ peer[s] = "open"
    /\ peer' = [peer EXCEPT ![s] = "closed"]
    /\ UNCHANGED <<managers, records_due, run, flags, path, session, sent, unread, input>>

RequestShutdown ==
    /\ stop' = TRUE
    /\ UNCHANGED <<managers, records_due, run, signalled, path, session, connection, input>>

Signal ==
    /\ signalled' = TRUE
    /\ UNCHANGED <<managers, records_due, run, stop, path, session, connection, input>>

\* Another process takes the path while it is free.
OtherBinds ==
    /\ path = "absent"
    /\ path' = "other"
    /\ UNCHANGED <<managers, records_due, run, flags, session, connection, input>>

\* The clock and the condition variable.
Event(s) ==
    /\ WaiterEvent(s)
    /\ UNCHANGED <<residency, model_reply, nodes, records_due, run, flags, path, session, connection, input>>

\* The program that the server is part of reports on a node.
NodeReport(id) ==
    /\ \/ \E n \in Sizes : UpdateUsageError(id, n) = "None" /\ update_usage(id, n)
       \/ \E healthy \in BOOLEAN : KnownNodeError(id) = "None" /\ set_health(id, healthy)
    /\ UNCHANGED <<residencyVars, records_due, run, flags, path, session, connection, input>>

Environment ==
    \/ Start \/ RequestShutdown \/ Signal \/ OtherBinds
    \/ \E id \in NodeIds : NodeReport(id)
    \/ \E s \in Threads : Connect(s) \/ SendLine(s) \/ HangUp(s) \/ Event(s)

ServerNext ==
    \/ Run \/ PollFails
    \/ Environment
    \/ \E s \in Threads : Session(s) \/ Wait(s)

ServerSpec == ServerInit /\ [][ServerNext]_serverVars

\* What s has to do; only an oversized line that never ends is up to its client.
Step(s) ==
    \/ CheckStop(s) \/ Read(s) \/ Dispatch(s) \/ Processed(s) \/ Answer(s)
    \/ FinishLoad(s) \/ RecordOperation(s) \/ RecordRequest(s) \/ Wait(s)
    \/ input[s] > 0 /\ TooLarge(s)

\* Threads run on, a thread that can take the mutex gets it in the end, time
\* goes on, and clients read their answers.  Clients owe nothing else.  Strong
\* fairness is needed where a step takes a mutex; a session stays where it is
\* until it takes its step, so that one condition for all of them is enough.
ServerFairness ==
    /\ WF_serverVars(Run)
    /\ \A s \in Threads :
          /\ SF_serverVars(Step(s))
          /\ WF_serverVars(DeadlinePasses(s) /\ Event(s))

FairServerSpec == ServerSpec /\ ServerFairness

-----------------------------------------------------------------------------

\* The state is well formed.
ServerTypeOK ==
    /\ run \in {"idle", "checkPath", "bind", "listen", "polling", "accepting",
                "closing", "cancelling", "joining", "stopped", "failed"}
    /\ flags \in BOOLEAN \X BOOLEAN
    /\ path \in {"absent", "ours", "other"}
    /\ session \in [Threads -> {"none", "backlog", "checking", "reading", "processing",
                                "waiting", "loading", "recording", "counting", "answering", "done"}]
    /\ peer \in [Threads -> {"open", "closed"}]
    /\ {unread, input} \subseteq [Threads -> 0 .. MaxLines]
    /\ \A s \in Threads : unread[s] + input[s] <= sent
    /\ sent \in 0 .. MaxLines

\* When run() has returned nothing it started is left: no session thread that
\* could still use the managers, no request in the queue, no load half done, no
\* socket file.
StoppedIsQuiet ==
    run \in {"stopped", "failed"} =>
        /\ \A s \in Threads : session[s] \in {"none", "done"}
        /\ pending = {}
        /\ loading = NoLoad
        /\ path # "ours"

\* A socket file of another process is never removed, also if it appears
\* between lstat and bind.
OtherPathStep == path = "other" => path' = "other"
OtherPathKept == [][OtherPathStep]_serverVars

\* The bytes that the sessions in ss have still to record.
Owed(what) ==
    LET ss == {s \in Threads : session[s] = "recording" /\ due[s].what = what
                               /\ due[s].success}
    IN  Total([s \in ss |-> due[s].bytes])

\* The bytes that waiting acquires have been granted and not returned yet.
Granted ==
    Total([s \in {s \in Threads : result[s] = "None"} |-> request[s].bytes])

InProgress ==
    {s \in Threads : session[s] \in {"waiting", "loading", "recording", "counting"}}

\* What was acquired less what was released is what is reserved, but for what
\* sessions are about to record.
BytesAddUp ==
    metrics.acquired_bytes + Owed("acquire") + Granted
        = Total(reservations) + metrics.released_bytes + Owed("release")

\* Every line is counted once, also if its client has gone.
LinesAddUp ==
    metrics.requests + Cardinality(InProgress) + Total(unread) + Total(input) = sent

\* The counters add up with the ledger and the lines at every moment, however
\* the sessions interleave.
MetricsAddUp ==
    Recording => /\ BytesAddUp
                 /\ LinesAddUp
                 /\ metrics.successes + metrics.failures = metrics.requests

\* "Blocks until request_shutdown() or external_stop returns true": once the
\* shutdown is asked for while run() is under way, run() returns; unless poll
\* failed first and the sessions have been told nothing.
ShutdownCompletes ==
    run # "idle" /\ (stop \/ signalled)
        ~> run \in {"stopped", "failed"} \/ (run = "joining" /\ ~ stop)

\* In that case run() returns when all clients have hung up.
DrainCompletes ==
    run = "joining" /\ (\A s \in Threads : session[s] \in {"none", "done"} \/ peer[s] = "closed")
        ~> run = "stopped"

=============================================================================
