-------------------------------- MODULE Logger --------------------------------
(***************************************************************************)
(* The per-router log of pkg/log/logger.go: callers hand records to one    *)
(* worker goroutine over unbuffered channels; the worker writes the file   *)
(* and keeps a copy in a queue, which GetLog returns for the notification. *)
(* A send and the receive that meets it are one step, a rendezvous.        *)
(***************************************************************************)
EXTENDS Naturals, Sequences, FiniteSets

CONSTANTS Clients,      \* goroutines that hold the Logger
          MaxLogs(_),   \* bound: Log calls of a client
          MaxReads(_)   \* bound: GetLog calls of a client

ASSUME LoggerAssumption ==
    \A c \in Clients : /\ MaxLogs(c) \in Nat /\ MaxReads(c) \in Nat
                       /\ c \notin {"idle", "done", "none"}

VARIABLES
    disciplined,  \* do the clients use the logger as process does: nobody closes
                  \* it under another call, nobody calls it after a Close?
    cpc,      \* cpc[c]: where client c is in its call
    logged,   \* logged[c]: Log calls made by c
    reads,    \* reads[c]: GetLog calls made by c
    once,     \* the client running the function of once.Do, "idle" or "done"
    wpc,      \* where the worker is
    serving,  \* the client whose request the worker holds
    reply,    \* the error value the worker is about to send: "nil" or "failed"
    file,     \* the log file: whole records, and pieces of records cut short
    fileOpen, \* l.f
    queue,    \* the worker's q
    acked,    \* history: the records whose Log returned nil, in that order
    got       \* history: got[c] is what the last GetLog of c returned

vars == <<disciplined, cpc, logged, reads, once, wpc, serving, reply, file, fileOpen, queue,
          acked, got>>

\* The n-th record of client c; a piece of it is what a failed write may leave.
WholeBefore(c, n) == [from |-> c, nth |-> n - 1, whole |-> TRUE]  \* mutant
Whole(c, n) == [from |-> c, nth |-> n, whole |-> TRUE]
Piece(c, n) == [from |-> c, nth |-> n, whole |-> FALSE]
Record == [from: Clients, nth: Nat \ {0}, whole: BOOLEAN]

ClientPcs == {"idle", "offer", "await", "ask", "awaitLog",
              "enterOnce", "stop", "awaitStop", "closeFile", "closed"}

Init ==
    /\ disciplined \in BOOLEAN
    /\ cpc = [c \in Clients |-> "idle"]
    /\ logged = [c \in Clients |-> 0] /\ reads = [c \in Clients |-> 0]
    /\ once = "idle"
    /\ wpc = "select" /\ serving = "none" /\ reply = "nil"
    /\ file = <<>> /\ fileOpen = TRUE
    /\ queue = <<>> /\ acked = <<>>
    /\ got = [c \in Clients |-> <<>>]

Goto(c, p) == cpc' = [cpc EXCEPT ![c] = p]

\* What a disciplined caller waits for before it logs or reads, or closes.
InCall   == {"offer", "await", "ask", "awaitLog"}
MayUse   == disciplined => \A c \in Clients : cpc[c] \in InCall \cup {"idle"}
MayClose == disciplined => \A c \in Clients : cpc[c] \notin InCall

-----------------------------------------------------------------------------
(* Callers.                                                                *)

Log(c) ==
    /\ cpc[c] = "idle" /\ logged[c] < MaxLogs(c) /\ MayUse
    /\ logged' = [logged EXCEPT ![c] = @ + 1]
    /\ Goto(c, "offer")
    /\ UNCHANGED <<disciplined, reads, once, wpc, serving, reply, file, fileOpen, queue, acked, got>>

GetLog(c) ==
    /\ cpc[c] = "idle" /\ reads[c] < MaxReads(c) /\ MayUse
    /\ reads' = [reads EXCEPT ![c] = @ + 1]
    /\ Goto(c, "ask")
    /\ UNCHANGED <<disciplined, logged, once, wpc, serving, reply, file, fileOpen, queue, acked, got>>

Close(c) ==
    /\ cpc[c] = "idle" /\ MayClose
    /\ Goto(c, "enterOnce")
    /\ UNCHANGED <<disciplined, logged, reads, once, wpc, serving, reply, file, fileOpen, queue, acked, got>>

\* once.Do: the first caller runs the function, the others wait until it is done.
EnterNow(c) ==                                                    \* mutant
    /\ cpc[c] = "enterOnce"
    /\ \/ once = "idle" /\ once' = c /\ Goto(c, "stop")
       \/ once # "idle" /\ Goto(c, "closeFile") /\ UNCHANGED once
    /\ UNCHANGED <<disciplined, logged, reads, wpc, serving, reply, file, fileOpen, queue, acked, got>>
EnterOnce(c) ==
    /\ cpc[c] = "enterOnce"
    /\ \/ once = "idle" /\ once' = c /\ Goto(c, "stop")
       \/ once = "done" /\ Goto(c, "closeFile") /\ UNCHANGED once
    /\ UNCHANGED <<disciplined, logged, reads, wpc, serving, reply, file, fileOpen, queue, acked, got>>

CloseFile(c) ==
    /\ cpc[c] = "closeFile"
    /\ fileOpen' = FALSE
    /\ Goto(c, "closed")
    /\ UNCHANGED <<disciplined, logged, reads, once, wpc, serving, reply, file, queue, acked, got>>

-----------------------------------------------------------------------------
(* The worker; its select takes any request that is offered.               *)

TakeInput(c) ==
    /\ wpc = "select" /\ cpc[c] = "offer"
    /\ wpc' = "write" /\ serving' = c
    /\ Goto(c, "await")
    /\ UNCHANGED <<disciplined, logged, reads, once, reply, file, fileOpen, queue, acked, got>>

\* l.f.Write: all of the record, or an error after none or some of it.
WriteAll(c, n) ==
    /\ fileOpen
    /\ file' = Append(file, Whole(c, n))
    /\ queue' = Append(queue, Whole(c, n))
    /\ reply' = "nil"

WriteErrorLost(c, n) ==                                           \* mutant
    /\ UNCHANGED <<file, queue>>
    /\ reply' = "nil"
WriteErrorQueued(c, n) ==                                         \* mutant
    /\ UNCHANGED file
    /\ reply' = "failed"
    /\ queue' = Append(queue, Whole(c, n))
WriteError(c, n) ==
    /\ \/ UNCHANGED file
       \/ fileOpen /\ file' = Append(file, Piece(c, n))
    /\ reply' = "failed"
    /\ UNCHANGED queue

Write ==
    /\ wpc = "write"
    /\ WriteAll(serving, logged[serving]) \/ WriteError(serving, logged[serving])
    /\ wpc' = "replyError"
    /\ UNCHANGED <<disciplined, cpc, logged, reads, once, serving, fileOpen, acked, got>>

ReplyError ==
    /\ wpc = "replyError" /\ cpc[serving] = "await"
    /\ acked' = IF reply = "nil" THEN Append(acked, Whole(serving, logged[serving]))
                ELSE acked
    /\ wpc' = "select"
    /\ Goto(serving, "idle")
    /\ UNCHANGED <<disciplined, logged, reads, once, serving, reply, file, fileOpen, queue, got>>

TakeOut(c) ==
    /\ wpc = "select" /\ cpc[c] = "ask"
    /\ wpc' = "replyLog" /\ serving' = c
    /\ Goto(c, "awaitLog")
    /\ UNCHANGED <<disciplined, logged, reads, once, reply, file, fileOpen, queue, acked, got>>

ReplyLogPop ==                                                    \* mutant
    /\ wpc = "replyLog" /\ cpc[serving] = "awaitLog"
    /\ got' = [got EXCEPT ![serving] = queue]
    /\ queue' = <<>>
    /\ wpc' = "select"
    /\ Goto(serving, "idle")
    /\ UNCHANGED <<disciplined, logged, reads, once, serving, reply, file, fileOpen, acked>>
ReplyLog ==
    /\ wpc = "replyLog" /\ cpc[serving] = "awaitLog"
    /\ got' = [got EXCEPT ![serving] = queue]
    /\ wpc' = "select"
    /\ Goto(serving, "idle")
    /\ UNCHANGED <<disciplined, logged, reads, once, serving, reply, file, fileOpen, queue, acked>>

\* The handshake on l.stop: the worker takes the signal, gives one back and ends.
TakeStop(c) ==
    /\ wpc = "select" /\ cpc[c] = "stop"
    /\ wpc' = "replyStop"
    /\ Goto(c, "awaitStop")
    /\ UNCHANGED <<disciplined, logged, reads, once, serving, reply, file, fileOpen, queue, acked, got>>

ReplyStopNotDone(c) ==                                            \* mutant
    /\ wpc = "replyStop" /\ cpc[c] = "awaitStop"
    /\ wpc' = "ended" /\ UNCHANGED once
    /\ Goto(c, "closeFile")
    /\ UNCHANGED <<disciplined, logged, reads, serving, reply, file, fileOpen, queue, acked, got>>
ReplyStop(c) ==
    /\ wpc = "replyStop" /\ cpc[c] = "awaitStop"
    /\ wpc' = "ended" /\ once' = "done"
    /\ Goto(c, "closeFile")
    /\ UNCHANGED <<disciplined, logged, reads, serving, reply, file, fileOpen, queue, acked, got>>

-----------------------------------------------------------------------------
Worker == \/ Write \/ ReplyError \/ ReplyLog
          \/ \E c \in Clients : TakeInput(c) \/ TakeOut(c) \/ TakeStop(c) \/ ReplyStop(c)

Client(c) == Log(c) \/ GetLog(c) \/ Close(c) \/ EnterOnce(c) \/ CloseFile(c)

Done == (\A c \in Clients : cpc[c] = "closed") /\ UNCHANGED vars

Next == Worker \/ (\E c \in Clients : Client(c)) \/ Done

\* The worker is always scheduled again, and a client inside Close goes on. No
\* client has to make a call: process may return without Close (pipeline.go:36, 41),
\* and so does main for a router it cannot reach (routercommander.go:331-337).
Fairness ==
    /\ WF_vars(Worker)
    /\ \A c \in Clients : WF_vars(EnterOnce(c)) /\ WF_vars(CloseFile(c))

Spec == Init /\ [][Next]_vars /\ Fairness

-----------------------------------------------------------------------------
(* Properties.                                                             *)

\* Clients, worker and channels are in states the Go types allow.
TypeOK ==
    /\ cpc \in [Clients -> ClientPcs]
    /\ disciplined \in BOOLEAN
    /\ logged \in [Clients -> Nat] /\ reads \in [Clients -> Nat]
    /\ once \in {"idle", "done"} \cup Clients
    /\ wpc \in {"select", "write", "replyError", "replyLog", "replyStop", "ended"}
    /\ serving \in Clients \cup {"none"} /\ reply \in {"nil", "failed"}
    /\ file \in Seq(Record) /\ fileOpen \in BOOLEAN
    /\ queue \in Seq(Record) /\ acked \in Seq(Record)
    /\ got \in [Clients -> Seq(Record)]

\* What will be mailed is what the callers were told was logged: the queue holds
\* the acknowledged records in order of acknowledgement, and at most the one
\* whose answer is on its way (logger.go:141-146).
QueueIsAcknowledged ==
    \/ queue = acked
    \/ /\ wpc = "replyError" /\ reply = "nil"
       /\ queue = Append(acked, Whole(serving, logged[serving]))

\* The whole records among the first n entries of the file.
Wholes(n) == {m \in 1..n : file[m].whole}

\* The file and the mailed log tell the same story: up to pieces of records
\* whose write failed, the file is the queue (logger.go:141-145).
FileIsQueue ==
    /\ Len(queue) = Cardinality(Wholes(Len(file)))
    /\ \A n \in Wholes(Len(file)) : queue[Cardinality(Wholes(n))] = file[n]

\* The file is closed only when the worker is gone for good, so no write can
\* meet a closed file, whoever calls Close and when (logger.go:127-134).
ClosedAfterWorker == ~fileOpen => wpc = "ended" /\ once = "done"

\* Used as process uses it, no call hangs: every Log, GetLog and Close that is
\* made returns, whoever else is in a call (logger.go:106-134, 136-154).
EveryCallReturns ==
    \A c \in Clients :
        /\ disciplined /\ cpc[c] \in InCall ~> cpc[c] = "idle"
        /\ disciplined /\ cpc[c] = "enterOnce" ~> cpc[c] = "closed"

\* For the callers the log is LogPromise: what they offered and the worker has
\* not written yet is pending, the queue is the log.
Undecided(c) == cpc[c] = "offer" \/ (cpc[c] = "await" /\ wpc = "write")
Pending == {Whole(c, logged[c]) : c \in {d \in Clients : Undecided(d)}}

Offers == UNION {{Whole(c, n) : n \in 1..MaxLogs(c)} : c \in Clients}

Promise == INSTANCE LogPromise
    WITH Records <- Offers, pending <- Pending, log <- queue, open <- (wpc # "ended")

\* Between offer and answer a record enters the log at most once, at its end, and
\* what GetLog gives is the log at a moment of the call (logger.go:106-154).
KeepsLogPromise == Promise!Spec
===============================================================================
