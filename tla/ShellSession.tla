----------------------------- MODULE ShellSession -----------------------------
(***************************************************************************)
(* The shell session of pkg/types/router.go: NewRouter, drainUntilPrompt,  *)
(* sendCommand and Close against a router that answers on a byte stream.   *)
(*                                                                         *)
(* For each command a goroutine reads the stream in chunks until it has    *)
(* seen the command's first word and, after it, something that looks like  *)
(* a prompt; the caller waits for it, for a read error, or for a timer.    *)
(* The stream is a sequence of pieces told apart by what the regular       *)
(* expressions make of them:                                               *)
(*   echo     the command line repeated by the router                      *)
(*   text     output that matches no pattern                               *)
(*   mention  a line that holds the first words of all commands       *)
(*   hash     a line that ends like an NX-OS prompt, name#                 *)
(*   soft     the same text inside a line: like a prompt where a read ends *)
(*   ansi     an escape sequence                                           *)
(*   mark     an escape sequence within the line of the echo               *)
(*   prompt   the router's prompt                                          *)
(***************************************************************************)
EXTENDS Naturals, Sequences, FiniteSets

CONSTANTS Commands,  \* number of commands, those NewRouter sends included
          Setup,     \* how many of them those are
          Word(_),   \* Word(i): the first word of command i
          Bodies     \* what a command may print: sequences of kinds

ASSUME SessionAssumption ==
    /\ Commands \in Nat /\ Setup \in 0..Commands
    /\ Bodies \subseteq Seq({"text", "mention", "hash", "soft", "ansi", "mark"})
    /\ \A b \in Bodies : \A n, m \in DOMAIN b : n < m /\ b[m] = "mark" => b[n] = "mark"

VARIABLES
    family,   \* "xr" or "nxos": what the prompt of the router looks like
    pc,       \* the caller: "dial", "drain", "next", "write", "select", "over", "panicked"
    cur,      \* the command at hand; 0 while the banner is drained
    conn,     \* "none", "up", "down" (lost) or "closed" (by Close)
    stdin,    \* commands on their way to the router
    wire,     \* output of the router nobody has read yet
    reader,   \* reader[i]: goroutine of command i: "none", "reading", "ended"
    buffer,   \* buffer[i]: its fullInput, until it is handed over
    doneCh,   \* doneCh[i], errCh[i]: the channels of command i, of capacity 1
    errCh,
    results,  \* results[i]: what sendCommand returned for command i, in <<>> or <<r>>
    printed   \* history: printed[i] is the body the router printed, in <<>> or <<b>>

vars == <<family, pc, cur, conn, stdin, wire, reader, buffer, doneCh, errCh, results, printed>>

Index == 0..Commands
Piece == [kind: {"echo", "text", "mention", "hash", "soft", "ansi", "mark", "prompt"},
          of: Index]

\* The output of command i with body b; the login banner is the output of 0.
Body(i, b) == [n \in DOMAIN b |-> [kind |-> b[n], of |-> i]]
Output(i, b) ==
    (IF i = 0 THEN <<>> ELSE <<[kind |-> "echo", of |-> i]>>)
        \o Body(i, b) \o <<[kind |-> "prompt", of |-> i]>>

-----------------------------------------------------------------------------
(* The regular expressions.                                                *)

\* Where startPattern of command i matches.
StartsAt(i, buf) ==
    {n \in DOMAIN buf : \/ buf[n].kind = "mention"
                        \/ buf[n].kind = "echo" /\ Word(buf[n].of) = Word(i)}

\* Where a prompt pattern matches once the escapes are removed; $ is the end of a line
\* or of what was read.
IsEscape(piece) == piece.kind \in {"ansi", "mark"}
PromptsAt(buf) ==
    {n \in DOMAIN buf : \/ buf[n].kind \in {"prompt", "hash"}
                        \/ buf[n].kind = "soft" /\ \A m \in (n + 1)..Len(buf) : IsEscape(buf[m])}

First(S) == CHOOSE n \in S : \A m \in S : n <= m

\* The NX-OS pattern is the last to be tried: where an IOS XR prompt has come in
\* it is found first, wherever it is.
PreferredAt(buf) ==
    LET xr == {n \in DOMAIN buf : buf[n].kind = "prompt" /\ family = "xr"}
    IN  IF xr # {} THEN xr ELSE PromptsAt(buf)

\* findPromptIndex answers with a position in the buffer without its escapes.
FindPromptIndex(buf) ==
    1 + Cardinality({n \in 1..(First(PreferredAt(buf)) - 1) : ~IsEscape(buf[n])})

\* Read until the start word: everything before it is dropped once it is seen.
Trim(i, buf) ==
    IF i = 0 \/ StartsAt(i, buf) = {} THEN buf
    ELSE SubSeq(buf, First(StartsAt(i, buf)), Len(buf))

Complete(i, buf) == (i = 0 \/ StartsAt(i, buf) # {}) /\ PromptsAt(buf) # {}

\* Where the line of the start word ends, with the escapes in it.
StartLineEnd(i, buf) ==
    First({n \in First(StartsAt(i, buf))..Len(buf) : n = Len(buf) \/ buf[n + 1].kind # "mark"})

\* What sendCommand cuts out of the buffer: from the end of the start line; the slice
\* of a start behind its end panics.
Inverted(i, buf) == FindPromptIndex(buf) <= StartLineEnd(i, buf)
ExtractLast(i, buf) ==                                            \* mutant
    LET last == CHOOSE n \in StartsAt(i, buf) : \A m \in StartsAt(i, buf) : m <= n
    IN  SubSeq(buf, last + 1, FindPromptIndex(buf) - 1)
Extract(i, buf) ==
    SubSeq(buf, StartLineEnd(i, buf) + 1, FindPromptIndex(buf) - 1)

\* The channels of a command are buffered: its goroutine can put down one value
\* whether the caller still waits or not.
CanPut(i, ch) == Len(ch[i]) < 1

-----------------------------------------------------------------------------
Init ==
    /\ family \in {"xr", "nxos"}
    /\ pc = "dial" /\ cur = 0 /\ conn = "none"
    /\ stdin = <<>> /\ wire = <<>>
    /\ reader = [i \in Index |-> "none"]
    /\ buffer = [i \in Index |-> <<>>]
    /\ doneCh = [i \in Index |-> <<>>] /\ errCh = [i \in Index |-> <<>>]
    /\ results = [i \in Index |-> <<>>] /\ printed = [i \in Index |-> <<>>]

(* The caller.                                                             *)

\* Any error, and the end of the work, end the session: nothing is sent after it.
\* NewRouter closes what it dialled; the deferred function of process calls Close, or
\* returns before it does.
Leave == pc' = "over" /\ conn' \in IF cur <= Setup THEN {"closed"} ELSE {conn, "closed"}

\* Dial, NewSession, RequestPty, the pipes and Shell, then the reader that
\* waits for the first prompt; any of them may fail, or never return.
Dial ==
    /\ pc = "dial"
    /\ \/ /\ conn' = "up" /\ pc' = "drain"
          /\ reader' = [reader EXCEPT ![0] = "reading"]
          /\ \E b \in Bodies : /\ wire' = Output(0, b)
                               /\ printed' = [printed EXCEPT ![0] = <<b>>]
       \/ pc' = "over" /\ conn' \in {"none", "closed"} /\ UNCHANGED <<reader, wire, printed>>
    /\ UNCHANGED <<family, cur, stdin, buffer, doneCh, errCh, results>>

\* sendCommand starts the reader before it writes the command.
StartReaderPast ==                                                \* mutant
    /\ pc = "next" /\ cur <= Commands + 1
    /\ reader' = [reader EXCEPT ![cur] = "reading"]
    /\ pc' = "write"
    /\ UNCHANGED <<family, cur, conn, stdin, wire, buffer, doneCh, errCh, results, printed>>
StartReader ==
    /\ pc = "next" /\ cur <= Commands
    /\ reader' = [reader EXCEPT ![cur] = "reading"]
    /\ pc' = "write"
    /\ UNCHANGED <<family, cur, conn, stdin, wire, buffer, doneCh, errCh, results, printed>>

WriteCommand ==
    /\ pc = "write"
    /\ \/ /\ conn = "up"
          /\ stdin' = Append(stdin, cur)
          /\ pc' = "select" /\ UNCHANGED conn
       \/ Leave /\ UNCHANGED stdin
    /\ UNCHANGED <<family, cur, wire, reader, buffer, doneCh, errCh, results, printed>>

\* The select of sendCommand and of drainUntilPrompt: whichever is ready.
TakeDone ==
    /\ pc \in {"drain", "select"} /\ doneCh[cur] # <<>>
    /\ cur # 0 => ~Inverted(cur, Head(doneCh[cur]))
    /\ doneCh' = [doneCh EXCEPT ![cur] = <<>>]
    /\ results' = IF cur = 0 THEN results
                  ELSE [results EXCEPT ![cur] = <<Extract(cur, Head(doneCh[cur]))>>]
    /\ cur' = cur + 1 /\ pc' = "next"
    /\ UNCHANGED <<family, conn, stdin, wire, reader, buffer, errCh, printed>>

\* The panic of the slice: no deferred function of NewRouter closes, that of process
\* may, and the program ends.
SlicePanics ==
    /\ pc = "select" /\ doneCh[cur] # <<>> /\ Inverted(cur, Head(doneCh[cur]))
    /\ doneCh' = [doneCh EXCEPT ![cur] = <<>>]
    /\ pc' = "panicked"
    /\ conn' \in IF cur <= Setup THEN {conn} ELSE {conn, "closed"}
    /\ UNCHANGED <<family, cur, stdin, wire, reader, buffer, errCh, results, printed>>

TakeError ==
    /\ pc \in {"drain", "select"} /\ errCh[cur] # <<>>
    /\ errCh' = [errCh EXCEPT ![cur] = <<>>]
    /\ Leave
    /\ UNCHANGED <<family, cur, stdin, wire, reader, buffer, doneCh, results, printed>>

TimeoutDrainOnly ==                                               \* mutant
    /\ pc = "drain"
    /\ Leave
    /\ UNCHANGED <<family, cur, stdin, wire, reader, buffer, doneCh, errCh, results, printed>>
TimeoutGoOn ==                                                    \* mutant
    /\ pc \in {"drain", "select"}
    /\ pc' = "next" /\ cur' = cur + 1
    /\ UNCHANGED <<family, conn, stdin, wire, reader, buffer, doneCh, errCh, results, printed>>
Timeout ==
    /\ pc \in {"drain", "select"}
    /\ Leave
    /\ UNCHANGED <<family, cur, stdin, wire, reader, buffer, doneCh, errCh, results, printed>>

\* The caller is done, or gives up between two commands: NewRouter on what the router
\* says of its platform, process on its tests.
Close ==
    /\ pc = "next" /\ cur > Setup
    /\ Leave
    /\ UNCHANGED <<family, cur, stdin, wire, reader, buffer, doneCh, errCh, results, printed>>

(* The reader goroutine of command i.                                      *)

Read(i) ==
    /\ reader[i] = "reading" /\ wire # <<>>
    /\ \E k \in 1..Len(wire) :
         LET buf == Trim(i, buffer[i] \o SubSeq(wire, 1, k))
         IN  /\ wire' = SubSeq(wire, k + 1, Len(wire))
             /\ IF Complete(i, buf)
                THEN /\ CanPut(i, doneCh)
                     /\ doneCh' = [doneCh EXCEPT ![i] = Append(@, buf)]
                     /\ reader' = [reader EXCEPT ![i] = "ended"]
                     /\ buffer' = [buffer EXCEPT ![i] = <<>>]
                ELSE /\ buffer' = [buffer EXCEPT ![i] = buf]
                     /\ UNCHANGED <<doneCh, reader>>
    /\ UNCHANGED <<family, pc, cur, conn, stdin, errCh, results, printed>>

ReadError(i) ==
    /\ reader[i] = "reading" /\ wire = <<>> /\ conn # "up"
    /\ CanPut(i, errCh)
    /\ errCh' = [errCh EXCEPT ![i] = Append(@, "EOF")]
    /\ reader' = [reader EXCEPT ![i] = "ended"]
    /\ UNCHANGED <<family, pc, cur, conn, stdin, wire, buffer, doneCh, results, printed>>

(* The router and the network.                                             *)

\* The router takes the next command, echoes it, prints and prompts.  It may
\* also never answer.
Answer ==
    /\ conn = "up" /\ stdin # <<>>
    /\ \E b \in Bodies :
         /\ wire' = wire \o Output(Head(stdin), b)
         /\ printed' = [printed EXCEPT ![Head(stdin)] = <<b>>]
    /\ stdin' = Tail(stdin)
    /\ UNCHANGED <<family, pc, cur, conn, reader, buffer, doneCh, errCh, results>>

\* The connection is lost, with any part of the output that was on its way.
LoseConnection ==
    /\ conn = "up"
    /\ conn' = "down"
    /\ \E k \in 0..Len(wire) : wire' = SubSeq(wire, 1, k)
    /\ UNCHANGED <<family, pc, cur, stdin, reader, buffer, doneCh, errCh, results, printed>>

-----------------------------------------------------------------------------
Reader(i) == Read(i) \/ ReadError(i)

Waits  == TakeDone \/ SlicePanics \/ TakeError \/ Timeout
Caller == Dial \/ StartReader \/ WriteCommand \/ Waits \/ Close

Over ==
    /\ \/ pc = "over" /\ \A i \in Index : reader[i] # "reading"
       \/ pc = "panicked"
    /\ UNCHANGED vars

Next == Caller \/ (\E i \in Index : Reader(i)) \/ Answer \/ LoseConnection \/ Over

\* Goroutines are scheduled, and the timer of a wait that lasts fires.  Connecting and
\* writing have no timer: a peer that is silent holds them for ever.
Fairness ==
    /\ WF_vars(StartReader \/ Waits \/ Close)
    /\ \A i \in Index : WF_vars(Reader(i))

Spec == Init /\ [][Next]_vars /\ Fairness

-----------------------------------------------------------------------------
(* Properties.                                                             *)

\* The caller, the goroutines and the channels are in states they can be in.
TypeOK ==
    /\ family \in {"xr", "nxos"}
    /\ pc \in {"dial", "drain", "next", "write", "select", "over", "panicked"}
    /\ cur \in 0..(Commands + 1)
    /\ conn \in {"none", "up", "down", "closed"}
    /\ stdin \in Seq(Index) /\ wire \in Seq(Piece)
    /\ reader \in [Index -> {"none", "reading", "ended"}]
    /\ buffer \in [Index -> Seq(Piece)]
    /\ doneCh \in [Index -> Seq(Seq(Piece))] /\ errCh \in [Index -> Seq({"EOF"})]
    /\ results \in [Index -> Seq(Seq(Piece))]
    /\ printed \in [Index -> Seq(Bodies)]

\* Does a body hold something that looks like the end of the output, and may what
\* comes after it look like the echo of a command?
LooksEnded(b)  == \E n \in DOMAIN b : b[n] \in {"hash", "soft"}
Misleading(b)  == \E n, m \in DOMAIN b : n < m /\ b[n] \in {"hash", "soft"} /\ b[m] = "mention"
Escaped(b)     == \E n \in DOMAIN b : b[n] \in {"ansi", "mark"}
Undisturbed(i) ==
    \A j \in 0..(i - 1) : printed[j] # <<>> => ~Misleading(Head(printed[j]))

\* A command's result is what the router printed for it, all of it and nothing
\* else, however the reads cut the stream and whatever was cut from the results
\* before it, as long as its own output holds no end and no escape
\* (router.go:512-526, 555-568; TextKept is about those with one).
ResultExact ==
    \A i \in 1..Commands :
        results[i] # <<>> /\ Undisturbed(i) =>
            \A b \in {printed[i][n] : n \in DOMAIN printed[i]} :
                ~LooksEnded(b) /\ ~Escaped(b) =>
                    Head(results[i]) = Body(i, b)

\* A result holds no output of another command: what a result cut short left on
\* the wire is dropped before the next echo (router.go:511-518).
OwnOutputOnly ==
    \A i \in 1..Commands : results[i] # <<>> /\ Undisturbed(i) =>
        \A n \in DOMAIN Head(results[i]) : Head(results[i])[n].of = i

\* Two goroutines never compete for the output of the session, although a timer
\* may leave one behind (router.go:505-535, 578-579).
OneReader ==
    \A i, j \in Index : reader[i] = "reading" /\ reader[j] = "reading" => i = j

\* No wait of a connected session lasts for ever: it ends, unless the connection is
\* not made or a command cannot be written; and where it is closed no reader goroutine
\* stays behind: it reads on until then and can always put down what it has, wanted or
\* not (router.go:491-492, 496, 505-535, 578).
SessionEnds ==
    /\ <>(pc \in {"over", "panicked"}) \/ <>[](pc \in {"dial", "write"})
    /\ conn = "closed" ~> (\A i \in Index : reader[i] # "reading")

\* router.go:513 "Discard everything before the command echo": a result never
\* starts in the output of an earlier command.
LeftoverDiscarded ==
    \A i \in 1..Commands : results[i] # <<>> =>
        \A n \in DOMAIN Head(results[i]) : Head(results[i])[n].of = i

\* README.md:5: routercommander "will execute each command, collect the output": all
\* the text of an output that nothing in it ends early is in the result.
TextKept ==
    \A i \in 1..Commands : results[i] # <<>> /\ Undisturbed(i) =>
        \A b \in {printed[i][n] : n \in DOMAIN printed[i]} :
            ~LooksEnded(b) /\ "text" \in {b[n] : n \in DOMAIN b} =>
                \E n \in DOMAIN Head(results[i]) : Head(results[i])[n].kind = "text"
===============================================================================
