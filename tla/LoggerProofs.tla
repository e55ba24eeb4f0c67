---------------------------- MODULE LoggerProofs ----------------------------
(***************************************************************************)
(* Proofs about Logger, for any clients and any number of calls: what will *)
(* be mailed is what was acknowledged, and no write meets a closed file.   *)
(***************************************************************************)
EXTENDS Logger, FiniteSetTheorems, TLAPS

\* The client the worker serves waits for it, so that what it gave the worker
\* stays the record it was.
ServingInv ==
    wpc \in {"write", "replyError"} => serving \in Clients /\ cpc[serving] = "await"

ClientsType == cpc \in [Clients -> ClientPcs] /\ logged \in [Clients -> Nat]

\* The queue is one record ahead of the acknowledgements exactly while the
\* answer to a record that was written is on its way.
AheadInv ==
    queue = IF wpc = "replyError" /\ reply = "nil"
            THEN Append(acked, Whole(serving, logged[serving]))
            ELSE acked

QueueInv == ClientsType /\ ServingInv /\ AheadInv

LEMMA QueueInvInductive == QueueInv /\ [Next]_vars => QueueInv'
  <1> SUFFICES ASSUME QueueInv, [Next]_vars PROVE QueueInv'
    OBVIOUS
  <1> USE DEF QueueInv
  <1>1. ASSUME NEW c \in Clients, Log(c) PROVE QueueInv'
    <2>1. ClientsType' /\ ServingInv'
      BY <1>1 DEF Log, Goto, ClientsType, ServingInv, ClientPcs
    <2>2. wpc = "replyError" => logged'[serving] = logged[serving]
      BY <1>1 DEF Log, ClientsType, ServingInv
    <2> QED BY <1>1, <2>1, <2>2 DEF Log, AheadInv, Whole
  <1>2. ASSUME NEW c \in Clients, GetLog(c) \/ Close(c) PROVE QueueInv'
    BY <1>2 DEF GetLog, Close, Goto, ClientsType, ServingInv, AheadInv, ClientPcs, Whole
  <1>3. ASSUME NEW c \in Clients, EnterOnce(c) \/ CloseFile(c) PROVE QueueInv'
    BY <1>3 DEF EnterOnce, CloseFile, Goto, ClientsType, ServingInv, AheadInv, ClientPcs, Whole
  <1>4. ASSUME NEW c \in Clients, TakeInput(c) PROVE QueueInv'
    BY <1>4 DEF TakeInput, Goto, ClientsType, ServingInv, AheadInv, ClientPcs, Whole
  <1>5. CASE Write
    <2>1. /\ wpc = "write" /\ wpc' = "replyError" /\ UNCHANGED <<cpc, serving, logged, acked>>
          /\ \/ reply' = "nil" /\ queue' = Append(queue, Whole(serving, logged[serving]))
             \/ reply' = "failed" /\ queue' = queue
      BY <1>5 DEF Write, WriteAll, WriteError
    <2> QED BY <2>1 DEF ClientsType, ServingInv, AheadInv, Whole
  <1>6. CASE ReplyError
    <2>1. wpc = "replyError" /\ wpc' = "select" /\ queue' = queue
      BY <1>6 DEF ReplyError
    <2>2. acked' = IF reply = "nil" THEN Append(acked, Whole(serving, logged[serving])) ELSE acked
      BY <1>6 DEF ReplyError
    <2>3. ClientsType'
      BY <1>6 DEF ReplyError, Goto, ClientsType, ClientPcs
    <2> QED BY <2>1, <2>2, <2>3 DEF ServingInv, AheadInv
  <1>7. ASSUME NEW c \in Clients, TakeOut(c) \/ TakeStop(c) \/ ReplyStop(c) PROVE QueueInv'
    BY <1>7 DEF TakeOut, TakeStop, ReplyStop, Goto, ClientsType, ServingInv, AheadInv, ClientPcs
  <1>8. CASE ReplyLog
    BY <1>8 DEF ReplyLog, Goto, ClientsType, ServingInv, AheadInv, ClientPcs
  <1>9. CASE UNCHANGED vars
    BY <1>9 DEF vars, ClientsType, ServingInv, AheadInv, Whole
  <1> QED BY <1>1, <1>2, <1>3, <1>4, <1>5, <1>6, <1>7, <1>8, <1>9
          DEF Next, Worker, Client, Done

\* What GetLog hands to the mailer is, in order, what the callers of Log were
\* told was logged, but for the record whose answer is on its way
\* (logger.go:117-125, 136-154).
THEOREM QueueFollowsAcknowledgements == Spec => []QueueIsAcknowledged
  <1>1. Init => QueueInv
    BY DEF Init, QueueInv, ClientsType, ServingInv, AheadInv, ClientPcs
  <1>2. QueueInv => QueueIsAcknowledged
    BY DEF QueueInv, AheadInv, QueueIsAcknowledged
  <1> QED BY <1>1, <1>2, QueueInvInductive, PTL DEF Spec

-----------------------------------------------------------------------------
(* Close.                                                                  *)

\* Whoever closes the file comes after the handshake, and after the handshake
\* the worker is gone.
CloseInv ==
    /\ ClientsType
    /\ \A c \in Clients : cpc[c] \in {"closeFile", "closed"} => once = "done"
    /\ once = "done" => wpc = "ended"
    /\ ~fileOpen => once = "done"

LEMMA CloseInvInductive == CloseInv /\ [Next]_vars => CloseInv'
  <1> SUFFICES ASSUME CloseInv, [Next]_vars PROVE CloseInv'
    OBVIOUS
  <1> USE DEF CloseInv, ClientsType
  <1>1. ASSUME NEW c \in Clients, Log(c) \/ GetLog(c) \/ Close(c) PROVE CloseInv'
    BY <1>1 DEF Log, GetLog, Close, Goto, ClientPcs
  <1>2. ASSUME NEW c \in Clients, EnterOnce(c) PROVE CloseInv'
    <2>1. CASE once = "idle"
      <3>1. once' # "done" /\ cpc' = [cpc EXCEPT ![c] = "stop"]
        BY <1>2, <2>1, LoggerAssumption DEF EnterOnce, Goto
      <3> QED BY <1>2, <2>1, <3>1 DEF EnterOnce, ClientPcs
    <2>2. CASE once = "done"
      BY <1>2, <2>2 DEF EnterOnce, Goto, ClientPcs
    <2> QED BY <1>2, <2>1, <2>2 DEF EnterOnce
  <1>3. ASSUME NEW c \in Clients, CloseFile(c) PROVE CloseInv'
    BY <1>3 DEF CloseFile, Goto, ClientPcs
  <1>4. ASSUME NEW c \in Clients, TakeInput(c) \/ TakeOut(c) \/ TakeStop(c) PROVE CloseInv'
    BY <1>4 DEF TakeInput, TakeOut, TakeStop, Goto, ClientPcs
  <1>5. ASSUME NEW c \in Clients, ReplyStop(c) PROVE CloseInv'
    BY <1>5 DEF ReplyStop, Goto, ClientPcs
  <1>6. CASE Write
    BY <1>6 DEF Write
  <1>7. CASE ReplyError \/ ReplyLog
    BY <1>7 DEF ReplyError, ReplyLog, Goto, ClientPcs
  <1>8. CASE UNCHANGED vars
    BY <1>8 DEF vars
  <1> QED BY <1>1, <1>2, <1>3, <1>4, <1>5, <1>6, <1>7, <1>8 DEF Next, Worker, Client, Done

\* No write of the worker meets a closed file, whoever calls Close, how often
\* and when (logger.go:127-134, 147-149).
THEOREM FileOutlivesWorker == Spec => []ClosedAfterWorker
  <1>1. Init => CloseInv
    BY DEF Init, CloseInv, ClientsType, ClientPcs
  <1>2. CloseInv => ClosedAfterWorker
    BY DEF CloseInv, ClosedAfterWorker
  <1> QED BY <1>1, <1>2, CloseInvInductive, PTL DEF Spec

-----------------------------------------------------------------------------
(* Types, and what a client at a statement of its call has done.           *)

OfferInv ==
    \A c \in Clients : cpc[c] \in {"offer", "await"} => logged[c] # 0

TypeInv == TypeOK /\ ServingInv /\ OfferInv

LEMMA WholeType ==
    ASSUME NEW c \in Clients, NEW n \in Nat \ {0}
    PROVE  Whole(c, n) \in Record /\ Piece(c, n) \in Record
  BY DEF Whole, Piece, Record

LEMMA TypeInvInductive == TypeInv /\ [Next]_vars => TypeInv'
  <1> SUFFICES ASSUME TypeInv, [Next]_vars PROVE TypeInv'
    OBVIOUS
  <1> USE DEF TypeInv
  <1>1. ASSUME NEW c \in Clients, Log(c) PROVE TypeInv'
    BY <1>1 DEF Log, Goto, TypeOK, ServingInv, OfferInv, ClientPcs
  <1>2. ASSUME NEW c \in Clients, GetLog(c) PROVE TypeInv'
    <2>1. reads'[c] \in Nat /\ reads' = [reads EXCEPT ![c] = reads[c] + 1]
      BY <1>2 DEF GetLog, TypeOK
    <2> QED BY <1>2, <2>1 DEF GetLog, Goto, TypeOK, ServingInv, OfferInv, ClientPcs
  <1>10. ASSUME NEW c \in Clients, Close(c) PROVE TypeInv'
    BY <1>10 DEF Close, Goto, TypeOK, ServingInv, OfferInv, ClientPcs
  <1>3. ASSUME NEW c \in Clients, EnterOnce(c) \/ CloseFile(c) PROVE TypeInv'
    BY <1>3 DEF EnterOnce, CloseFile, Goto, TypeOK, ServingInv, OfferInv, ClientPcs
  <1>4. ASSUME NEW c \in Clients, TakeInput(c) PROVE TypeInv'
    BY <1>4 DEF TakeInput, Goto, TypeOK, ServingInv, OfferInv, ClientPcs
  <1>5. CASE Write
    <2>1. /\ Whole(serving, logged[serving]) \in Record
          /\ Piece(serving, logged[serving]) \in Record
      BY <1>5, WholeType DEF Write, TypeOK, ServingInv, OfferInv
    <2>2. file \in Seq(Record) /\ queue \in Seq(Record)
      BY DEF TypeOK
    <2>3. CASE WriteAll(serving, logged[serving])
      BY <2>1, <2>2, <2>3, <1>5 DEF Write, WriteAll, TypeOK, ServingInv, OfferInv
    <2>4. CASE WriteError(serving, logged[serving])
      <3>1. file' \in Seq(Record) /\ queue' = queue /\ reply' = "failed"
        BY <2>1, <2>2, <2>4 DEF WriteError
      <3> QED BY <3>1, <1>5 DEF Write, TypeOK, ServingInv, OfferInv
    <2> QED BY <1>5, <2>3, <2>4 DEF Write
  <1>6. CASE ReplyError
    <2>1. Whole(serving, logged[serving]) \in Record
      BY <1>6, WholeType DEF ReplyError, TypeOK, ServingInv, OfferInv
    <2>2. acked' \in Seq(Record)
      BY <1>6, <2>1 DEF ReplyError, TypeOK
    <2> QED BY <1>6, <2>2 DEF ReplyError, Goto, TypeOK, ServingInv, OfferInv, ClientPcs
  <1>7. ASSUME NEW c \in Clients, TakeOut(c) \/ TakeStop(c) \/ ReplyStop(c) PROVE TypeInv'
    BY <1>7 DEF TakeOut, TakeStop, ReplyStop, Goto, TypeOK, ServingInv, OfferInv, ClientPcs
  <1>8. CASE ReplyLog
    BY <1>8 DEF ReplyLog, Goto, TypeOK, ServingInv, OfferInv, ClientPcs
  <1>9. CASE UNCHANGED vars
    BY <1>9 DEF vars, TypeOK, ServingInv, OfferInv
  <1> QED BY <1>1, <1>2, <1>3, <1>4, <1>5, <1>6, <1>7, <1>8, <1>9, <1>10
          DEF Next, Worker, Client, Done

\* Clients, worker, channels and log keep the types of their declarations.
THEOREM TypeCorrect == Spec => []TypeOK
  <1>1. Init => TypeInv
    BY DEF Init, TypeInv, TypeOK, ServingInv, OfferInv, ClientPcs
  <1>2. TypeInv => TypeOK
    BY DEF TypeInv
  <1> QED BY <1>1, <1>2, TypeInvInductive, PTL DEF Spec

-----------------------------------------------------------------------------
(* The file.                                                               *)

LEMMA WholesFinite ==
    ASSUME NEW n \in Nat
    PROVE  /\ IsFiniteSet(Wholes(n)) /\ Cardinality(Wholes(n)) \in Nat
           /\ Cardinality(Wholes(n)) <= n
  <1>1. 1 \in Int /\ n \in Int
    OBVIOUS
  <1>2. IsFiniteSet(1..n) /\ Cardinality(1..n) = n
    BY <1>1, FS_Interval
  <1>3. Wholes(n) \subseteq 1..n
    BY DEF Wholes
  <1> QED BY <1>2, <1>3, FS_Subset, FS_CardinalityType

\* What is written at the end of the file leaves what is before it as it was.
LEMMA WholesStay ==
    ASSUME NEW r \in Record, file \in Seq(Record), file' = Append(file, r)
    PROVE  \A n \in 0..Len(file) : Wholes(n)' = Wholes(n)
  BY DEF Wholes

\* A step that leaves file and queue alone, or adds a piece to the file, or the
\* same whole record to both, keeps them alike.
LEMMA FileStays == FileIsQueue /\ UNCHANGED <<file, queue>> => FileIsQueue'
  BY DEF FileIsQueue, Wholes

LEMMA PieceInFile ==
    ASSUME NEW r \in Record, ~r.whole, file \in Seq(Record), FileIsQueue,
           file' = Append(file, r), UNCHANGED queue
    PROVE  FileIsQueue'
  <1> DEFINE last == Len(file)
  <1>1. last \in Nat /\ Len(file') = last + 1 /\ file'[last + 1] = r
    OBVIOUS
  <1>2. \A n \in 1..last : file'[n] = file[n]
    OBVIOUS
  <1>3. \A n \in 0..last : Wholes(n)' = Wholes(n)
    BY WholesStay
  <1>4. Wholes(Len(file))' = Wholes(last)
    BY <1>1, <1>2 DEF Wholes
  <1>5. Wholes(last) \subseteq 1..last
    BY DEF Wholes
  <1>6. Len(queue') = Cardinality(Wholes(Len(file))')
    BY <1>4 DEF FileIsQueue
  <1>7. ASSUME NEW n \in Wholes(last) PROVE queue'[Cardinality(Wholes(n)')] = file'[n]
    BY <1>2, <1>3, <1>5, <1>7 DEF FileIsQueue
  <1> QED BY <1>4, <1>6, <1>7 DEF FileIsQueue

LEMMA RecordInBoth ==
    ASSUME NEW r \in Record, r.whole, NEW last \in Nat, last = Len(file),
           file \in Seq(Record), queue \in Seq(Record), FileIsQueue, file' = Append(file, r), queue' = Append(queue, r)
    PROVE  FileIsQueue'
  <1> DEFINE count == Cardinality(Wholes(last))
  <1>1. last \in Nat /\ Len(file') = last + 1 /\ file'[last + 1] = r
    OBVIOUS
  <1>2. \A n \in 1..last : file'[n] = file[n]
    OBVIOUS
  <1>3. \A n \in 0..last : Wholes(n)' = Wholes(n)
    BY WholesStay
  <1>4. Wholes(Len(file))' = Wholes(last) \cup {last + 1}
    BY <1>1, <1>2 DEF Wholes
  <1>5. Wholes(last) \subseteq 1..last /\ last + 1 \notin Wholes(last)
    BY <1>1 DEF Wholes
  <1>6. IsFiniteSet(Wholes(last)) /\ count \in Nat
    BY <1>1, WholesFinite
  <1>7. Cardinality(Wholes(last) \cup {last + 1}) = count + 1
    BY <1>5, <1>6, FS_AddElement
  <1>8. Len(queue) = count
    BY DEF FileIsQueue
  <1>9. Len(queue') = count + 1 /\ queue'[count + 1] = r
    BY <1>6, <1>8
  <1>10. \A k \in 1..count : queue'[k] = queue[k]
    BY <1>8
  <1>11. ASSUME NEW n \in Wholes(last) PROVE queue'[Cardinality(Wholes(n)')] = file'[n]
    <2>1. n \in 1..last /\ file'[n] = file[n] /\ Wholes(n)' = Wholes(n)
      BY <1>2, <1>3, <1>5, <1>11
    <2>2. Wholes(n) \subseteq Wholes(last) /\ n \in Wholes(n)
      BY <2>1, <1>11, <1>1 DEF Wholes
    <2>3. IsFiniteSet(Wholes(n)) /\ Cardinality(Wholes(n)) <= count
      BY <2>2, <1>6, FS_Subset
    <2>4. Cardinality(Wholes(n)) \in Nat /\ Cardinality(Wholes(n)) # 0
      BY <2>2, <2>3, FS_CardinalityType, FS_EmptySet
    <2>5. Cardinality(Wholes(n)) \in 1..count
      BY <2>3, <2>4, <1>6
    <2>6. queue[Cardinality(Wholes(n))] = file[n]
      BY <1>11 DEF FileIsQueue
    <2> QED BY <2>1, <2>5, <2>6, <1>10
  <1>12. Wholes(last + 1)' = Wholes(last) \cup {last + 1}
    BY <1>1, <1>2 DEF Wholes
  <1>13. queue'[Cardinality(Wholes(last + 1)')] = file'[last + 1]
    BY <1>1, <1>7, <1>9, <1>12
  <1>14. \A n \in Wholes(last) \cup {last + 1} : queue'[Cardinality(Wholes(n)')] = file'[n]
    <2> TAKE n \in Wholes(last) \cup {last + 1}
    <2> QED BY <1>11, <1>13
  <1> QED BY <1>4, <1>7, <1>9, <1>14 DEF FileIsQueue

\* The file on disk and the log that is mailed tell the same story: up to pieces
\* of records whose write failed, the file is the queue, for any clients, any
\* number of calls and whichever writes fail (logger.go:136-154).
THEOREM FileFollowsQueue == Spec => []FileIsQueue
  <1>1. Init => TypeInv /\ FileIsQueue
    <2> SUFFICES ASSUME Init PROVE TypeInv /\ FileIsQueue
      OBVIOUS
    <2>1. TypeInv
      BY DEF Init, TypeInv, TypeOK, ServingInv, OfferInv, ClientPcs
    <2>2. Len(file) = 0 /\ Len(queue) = 0 /\ Wholes(0) = {}
      BY DEF Init, Wholes
    <2> QED BY <2>1, <2>2, FS_EmptySet DEF FileIsQueue
  <1>2. TypeInv /\ FileIsQueue /\ [Next]_vars => FileIsQueue'
    <2> SUFFICES ASSUME TypeInv, FileIsQueue, [Next]_vars PROVE FileIsQueue'
      OBVIOUS
    <2>1. CASE Write
      <3> DEFINE c == serving
                 n == logged[serving]
      <3>1. Whole(c, n) \in Record /\ Piece(c, n) \in Record
        BY <2>1, WholeType DEF Write, TypeInv, TypeOK, ServingInv, OfferInv
      <3>2. file \in Seq(Record) /\ queue \in Seq(Record)
        BY DEF TypeInv, TypeOK
      <3>3. Whole(c, n).whole /\ ~Piece(c, n).whole
        BY DEF Whole, Piece
      <3>4. CASE file' = Append(file, Whole(c, n)) /\ queue' = Append(queue, Whole(c, n))
        <4>1. PICK last \in Nat : last = Len(file)
          BY <3>2
        <4> QED BY <3>1, <3>2, <3>3, <3>4, <4>1, RecordInBoth
      <3>5. CASE file' = Append(file, Piece(c, n)) /\ UNCHANGED queue
        BY <3>1, <3>2, <3>3, <3>5, PieceInFile
      <3>6. CASE UNCHANGED <<file, queue>>
        BY <3>6, FileStays
      <3> QED BY <2>1, <3>4, <3>5, <3>6 DEF Write, WriteAll, WriteError
    <2>2. CASE ~Write
      <3>1. UNCHANGED <<file, queue>>
        BY <2>2 DEF Next, Worker, Client, Done, vars, Log, GetLog, Close, EnterOnce, CloseFile,
                    TakeInput, ReplyError, TakeOut, ReplyLog, TakeStop, ReplyStop
      <3> QED BY <3>1, FileStays
    <2> QED BY <2>1, <2>2
  <1> QED BY <1>1, <1>2, TypeInvInductive, PTL DEF Spec

-----------------------------------------------------------------------------
(* The log implements LogPromise.                                          *)

\* At most one client waits for the answer to a record: the one the worker serves.
\* No client has made more calls than it may.
WaitInv ==
    \A c \in Clients :
        /\ cpc[c] = "await" => serving = c /\ wpc \in {"write", "replyError"}
        /\ logged[c] <= MaxLogs(c)

LEMMA WaitInvInductive == TypeInv /\ WaitInv /\ [Next]_vars => WaitInv'
  <1> SUFFICES ASSUME TypeInv, WaitInv, [Next]_vars PROVE WaitInv'
    OBVIOUS
  <1> USE DEF TypeInv, TypeOK, WaitInv
  <1>1. ASSUME NEW c \in Clients, Log(c) PROVE WaitInv'
    BY <1>1, LoggerAssumption DEF Log, Goto, ClientPcs
  <1>2. ASSUME NEW c \in Clients, GetLog(c) \/ Close(c) \/ EnterOnce(c) \/ CloseFile(c)
        PROVE WaitInv'
    BY <1>2 DEF GetLog, Close, EnterOnce, CloseFile, Goto, ClientPcs
  <1>3. ASSUME NEW c \in Clients, TakeInput(c) \/ TakeOut(c) \/ TakeStop(c) \/ ReplyStop(c)
        PROVE WaitInv'
    BY <1>3 DEF TakeInput, TakeOut, TakeStop, ReplyStop, Goto, ClientPcs
  <1>4. CASE Write
    BY <1>4 DEF Write
  <1>5. CASE ReplyError \/ ReplyLog
    BY <1>5 DEF ReplyError, ReplyLog, Goto, ServingInv, ClientPcs
  <1>6. CASE UNCHANGED vars
    BY <1>6 DEF vars
  <1> QED BY <1>1, <1>2, <1>3, <1>4, <1>5, <1>6 DEF Next, Worker, Client, Done

\* Pending is as it was when no client moves into or out of the state in which its
\* record is undecided.
LEMMA PendingStays ==
    ASSUME UNCHANGED logged, \A d \in Clients : Undecided(d)' <=> Undecided(d)
    PROVE  Pending' = Pending
  BY DEF Pending, Whole

LEMMA StepKeepsPromise ==
    TypeInv /\ WaitInv /\ [Next]_vars => [Promise!Next]_(Promise!vars)
  <1> SUFFICES ASSUME TypeInv, WaitInv, [Next]_vars PROVE [Promise!Next]_(Promise!vars)
    OBVIOUS
  <1> USE DEF TypeInv, TypeOK, WaitInv
  <1>1. ASSUME NEW c \in Clients, Log(c) PROVE Promise!Next
    <2> DEFINE r == Whole(c, logged[c] + 1)
    <2>1. r \in Offers
      <3>1. logged[c] + 1 \in 1..MaxLogs(c)
        BY <1>1, LoggerAssumption DEF Log
      <3> QED BY <3>1 DEF Offers
    <2>2. r \notin Pending
      BY <1>1 DEF Log, Pending, Undecided, Whole
    <2>3. Pending' = Pending \cup {r}
      <3>1. Undecided(c)' /\ ~Undecided(c) /\ logged'[c] = logged[c] + 1
        BY <1>1 DEF Log, Goto, Undecided
      <3>2. \A d \in Clients \ {c} : logged'[d] = logged[d] /\ (Undecided(d)' <=> Undecided(d))
        BY <1>1 DEF Log, Goto, Undecided
      <3> QED BY <3>1, <3>2 DEF Pending, Whole
    <2>4. UNCHANGED <<queue, got, wpc>>
      BY <1>1 DEF Log
    <2>5. Promise!Offer(r)
      BY <2>2, <2>3, <2>4 DEF Promise!Offer
    <2> QED BY <2>1, <2>5 DEF Promise!Next
  <1>2. ASSUME NEW c \in Clients, GetLog(c) \/ Close(c) \/ EnterOnce(c) \/ CloseFile(c)
        PROVE UNCHANGED Promise!vars
    <2>1. \A d \in Clients : Undecided(d)' <=> Undecided(d)
      BY <1>2 DEF GetLog, Close, EnterOnce, CloseFile, Goto, Undecided, ClientPcs
    <2>2. UNCHANGED <<logged, queue, got, wpc>>
      BY <1>2 DEF GetLog, Close, EnterOnce, CloseFile
    <2> QED BY <2>1, <2>2, PendingStays DEF Promise!vars
  <1>3. ASSUME NEW c \in Clients, TakeInput(c) \/ TakeOut(c) \/ TakeStop(c)
        PROVE UNCHANGED Promise!vars
    <2>1. \A d \in Clients : Undecided(d)' <=> Undecided(d)
      BY <1>3 DEF TakeInput, TakeOut, TakeStop, Goto, Undecided, ClientPcs
    <2>2. UNCHANGED <<logged, queue, got>> /\ (wpc' # "ended" <=> wpc # "ended")
      BY <1>3 DEF TakeInput, TakeOut, TakeStop
    <2> QED BY <2>1, <2>2, PendingStays DEF Promise!vars
  <1>4. CASE Write
    <2> DEFINE r == Whole(serving, logged[serving])
    <2>1. /\ wpc = "write" /\ wpc' = "replyError" /\ UNCHANGED <<cpc, logged, got>>
          /\ serving \in Clients /\ cpc[serving] = "await"
      BY <1>4 DEF Write, ServingInv
    <2>2. r \in Pending /\ r \in Offers
      BY <2>1, LoggerAssumption DEF Pending, Undecided, Offers, OfferInv
    <2>3. Pending' = Pending \ {r}
      <3>1. Undecided(serving) /\ ~(cpc'[serving] = "offer" \/ (cpc'[serving] = "await" /\ wpc' = "write"))
        BY <2>1 DEF Undecided
      <3>2. \A d \in Clients \ {serving} : Undecided(d)' <=> Undecided(d)
        BY <2>1 DEF Undecided
      <3>3. \A d \in Clients : Undecided(d)' <=> Undecided(d) /\ d # serving
        BY <2>1, <3>1, <3>2 DEF Undecided
      <3>4. Pending' = {Whole(d, logged[d]) : d \in {x \in Clients : Undecided(x) /\ x # serving}}
        BY <2>1, <3>3 DEF Pending, Whole
      <3> QED BY <3>1, <3>4, <2>1 DEF Pending, Whole
    <2>4. CASE queue' = Append(queue, r)
      <3>1. Promise!Accept(r)
        BY <2>1, <2>2, <2>3, <2>4 DEF Promise!Accept
      <3> QED BY <2>2, <3>1 DEF Promise!Next
    <2>5. CASE queue' = queue
      <3>1. Promise!Refuse(r)
        BY <2>1, <2>2, <2>3, <2>5 DEF Promise!Refuse
      <3> QED BY <2>2, <3>1 DEF Promise!Next
    <2> QED BY <1>4, <2>4, <2>5 DEF Write, WriteAll, WriteError
  <1>5. CASE ReplyError
    <2>1. \A d \in Clients : Undecided(d)' <=> Undecided(d)
      BY <1>5 DEF ReplyError, Goto, Undecided, ServingInv
    <2>2. UNCHANGED <<logged, queue, got>> /\ wpc' # "ended" /\ wpc # "ended"
      BY <1>5 DEF ReplyError
    <2> QED BY <2>1, <2>2, PendingStays DEF Promise!vars
  <1>6. CASE ReplyLog
    <2>1. \A d \in Clients : Undecided(d)' <=> Undecided(d)
      BY <1>6 DEF ReplyLog, Goto, Undecided
    <2>2. /\ UNCHANGED <<logged, queue>> /\ got' = [got EXCEPT ![serving] = queue]
          /\ wpc' # "ended" /\ wpc # "ended"
      BY <1>6 DEF ReplyLog
    <2>3. CASE serving \in Clients
      <3>1. Promise!Read(serving)
        BY <2>1, <2>2, PendingStays DEF Promise!Read
      <3> QED BY <2>3, <3>1 DEF Promise!Next
    <2>4. CASE serving \notin Clients
      BY <2>1, <2>2, <2>4, PendingStays DEF Promise!vars
    <2> QED BY <2>3, <2>4
  <1>7. ASSUME NEW c \in Clients, ReplyStop(c) PROVE Promise!Next
    <2>1. \A d \in Clients : Undecided(d)' <=> Undecided(d)
      BY <1>7 DEF ReplyStop, Goto, Undecided
    <2>2. UNCHANGED <<logged, queue, got>> /\ wpc' = "ended" /\ wpc # "ended"
      BY <1>7 DEF ReplyStop
    <2>3. Promise!Shut
      BY <2>1, <2>2, PendingStays DEF Promise!Shut
    <2> QED BY <2>3 DEF Promise!Next
  <1>8. CASE UNCHANGED vars
    <2>1. UNCHANGED <<cpc, logged, wpc, queue, got>>
      BY <1>8 DEF vars
    <2> QED BY <2>1, PendingStays DEF Undecided, Promise!vars
  <1> QED BY <1>1, <1>2, <1>3, <1>4, <1>5, <1>6, <1>7, <1>8 DEF Next, Worker, Client, Done

\* Every behaviour of callers and worker is one of LogPromise: a record is logged
\* once, at the end, while its caller waits, or refused, and readers are given the
\* log of a moment of their call (logger.go:106-154).
THEOREM LogKeepsItsPromise == Spec => KeepsLogPromise
  <1>1. Init => TypeInv /\ WaitInv
    BY LoggerAssumption DEF Init, TypeInv, TypeOK, ServingInv, OfferInv, ClientPcs, WaitInv
  <1>2. Init => Promise!Init
    BY DEF Init, Promise!Init, Pending, Undecided
  <1> QED BY <1>1, <1>2, TypeInvInductive, WaitInvInductive, StepKeepsPromise, PTL
          DEF Spec, KeepsLogPromise, Promise!Spec
=============================================================================
