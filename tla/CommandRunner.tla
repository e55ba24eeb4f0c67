---------------------------- MODULE CommandRunner ----------------------------
(***************************************************************************)
(* ProcessCommand of pkg/types/router.go and local.go: how a command of    *)
(* the file becomes the commands a router sees, one per location and run   *)
(* of its times/interval loop, and what is returned and logged of them.    *)
(* The platform of an IOS XR router is read from it when it is connected   *)
(* (platform.go); its caller (process) goes through the commands round by  *)
(* round and stops at the first error.                                     *)
(*                                                                         *)
(* Out of it stay the text of a command (location keyword, pipe modifier)  *)
(* and the delays, which are steps without effect.  The log is what        *)
(* LogPromise allows a single caller: a record is at its end, or refused,  *)
(* and the callers here ignore which.                                      *)
(***************************************************************************)
EXTENDS Integers, Sequences, FiniteSets, SequencesExt

CONSTANTS Plans,       \* what a router is and is asked: see Plan
          Locations,   \* names of cards, and what a template makes of them
          Slotted,     \* the locations rack/slot/CPU with a number for a slot
          SlotName(_), \* the template filled in with the slot of such a location
          MaxRefused   \* bound: records the log refuses

Keywords == {"all", "all-rp", "all-lc"}

\* A line of "show platform": the pattern it has, and is the card in IOS XR RUN?
PlatformLine == [form: {"rp", "lc", "other"}, location: Locations, running: BOOLEAN]

Command == [location: Seq(Locations \cup Keywords),
            template: {"none", "slot", "broken"},   \* location_fmt_tmpl
            parses: BOOLEAN,          \* not location_customized, or a text that parses,
            unfit: SUBSET Locations,  \* and the locations it cannot be filled in with
            regular: BOOLEAN,         \* the first word is a regular expression
            times: Int, interval: Int,
            collect: BOOLEAN]         \* the caller wants the results

\* Without commands or without rounds ProcessCommand is not called.
Plan == [kind: {"xr", "nxos", "local"}, lines: SUBSET PlatformLine,
         commands: Seq(Command) \ {<<>>}, rounds: Nat \ {0}]

ASSUME RunnerAssumption ==
    /\ Plans \subseteq Plan /\ \A p \in Plans : IsFiniteSet(p.lines)
    /\ Locations \subseteq STRING /\ Locations \cap Keywords = {}
    /\ "none" \notin Locations
    /\ Slotted \subseteq Locations /\ \A l \in Slotted : SlotName(l) \in Locations
    /\ MaxRefused \in Nat

VARIABLES
    plan,     \* the router, the commands and how often process goes through them
    pc,       \* where the caller is: see Pcs
    cards,    \* r.platform: the sets rps and lcs
    round,    \* rounds completed
    cmd,      \* the command at hand, an index of plan.commands
    todo,     \* the commands still to send in this call, the one in hand first
    runs,     \* how often the one in hand was answered
    results,  \* the results of this call so far
    log,      \* the records in the router's log
    refused,  \* how many records the log refused
    sent,     \* history: the commands the router was given, and was each answered?
    calls     \* history: what the calls of ProcessCommand returned, and their commands in sent

vars == <<plan, pc, cards, round, cmd, todo, runs, results, log, refused, sent, calls>>

Pcs == {"connect", "call", "send", "await", "tick", "unreachable", "failed", "panicked",
        "over"}

Init ==
    /\ plan \in Plans
    /\ pc = "connect" /\ cards = [rps |-> {}, lcs |-> {}]
    /\ round = 0 /\ cmd = 1
    /\ todo = <<>> /\ runs = 0 /\ results = <<>>
    /\ log = <<>> /\ refused = 0
    /\ sent = <<>> /\ calls = <<>>

Current == plan.commands[cmd]

\* What is sent: a command of the file, at a location or without one.
Text(l) == [command |-> cmd, at |-> l]

\* Log calls, in order; the error each returns is not looked at.
Without(s, lost) ==
    LET kept[n \in 0..Len(s)] ==
            IF n = 0 THEN <<>>
            ELSE IF n \in lost THEN kept[n - 1] ELSE Append(kept[n - 1], s[n])
    IN  kept[Len(s)]
Log(records) ==
    \E lost \in SUBSET DOMAIN records :
        /\ log' = log \o Without(records, lost)
        /\ refused' = refused + Cardinality(lost) /\ refused' <= MaxRefused
Header(text) == [kind |-> "command", text |-> text, nth |-> 0]
Output(text, n) == [kind |-> "output", text |-> text, nth |-> n]

-----------------------------------------------------------------------------
\* populatePlatformInfo: cards that run, told apart by their names; a router
\* without a route processor is not taken. Other platforms have no cards.
Running(p, form) ==
    {l.location : l \in {m \in p.lines : m.form = form /\ m.running}}
Connect ==
    /\ pc = "connect"
    /\ IF plan.kind # "xr" THEN pc' = "call" /\ UNCHANGED cards
       ELSE IF Running(plan, "rp") = {} THEN pc' = "unreachable" /\ UNCHANGED cards
       ELSE pc' = "call" /\ cards' = [rps |-> Running(plan, "rp"), lcs |-> Running(plan, "lc")]
    /\ UNCHANGED <<plan, round, cmd, todo, runs, results, log, refused, sent, calls>>

\* GetAllRPs, GetAllLCs and GetAllLocations go through a map: any order.
AllRPs(platform) == SetToSeqs(platform.rps)
AllLCsOnly(platform) == SetToSeqs(platform.lcs)                   \* mutant
AllLCs(platform) ==
    IF platform.lcs = {} THEN AllRPs(platform) ELSE SetToSeqs(platform.lcs)
EachThen(lists, more) == {ls \o ms : ls \in lists, ms \in more}
Expansions(platform, l) ==
    CASE l = "all"    -> EachThen(AllRPs(platform), AllLCs(platform))
      [] l = "all-rp" -> AllRPs(platform)
      [] l = "all-lc" -> AllLCs(platform)
      [] OTHER        -> {<<l>>}

\* prepareLocations: the locations in the order of the file, keywords expanded.
Expanded(platform, c) ==
    LET lists[n \in 0..Len(c.location)] ==
            IF n = 0 THEN {<<>>} ELSE EachThen(lists[n - 1], Expansions(platform, c.location[n]))
    IN  lists[Len(c.location)]

\* The templates of the locations and of the command are parsed although there may
\* be nothing to fill in; that of the locations is filled in before anything is sent.
Fits(c, locations) ==
    /\ c.parses
    /\ \/ c.template = "none"
       \/ c.template = "slot" /\ \A i \in DOMAIN locations : locations[i] \in Slotted
Format(c, l) == IF c.template = "slot" THEN SlotName(l) ELSE l

\* sendCommand: how often a command is run, and what panics in it: time.NewTicker on
\* an interval below zero, before the first run, and regexp.MustCompile on the first
\* word, in a remote run before anything is logged or written.
Repeats(c) == IF c.interval = 0 \/ c.times = 0 THEN 1 ELSE c.times
Ticks(c)   == c.interval # 0 /\ c.times # 0
Panics(c)  == Ticks(c) /\ c.interval < 0
RunPanics(c) == plan.kind # "local" /\ ~c.regular

\* The text of the command cannot be filled in with the location whose turn it is;
\* the locations before it have been served.
Unfilled == runs = 0 /\ Head(todo).at \in Current.unfit

\* process takes what ProcessCommand returns, and calls it with the next command.
ReturnGoOn(ok, res, s) ==                                         \* mutant
    /\ calls' = Append(calls, [command |-> cmd, ok |-> ok, results |-> IF Current.collect THEN res ELSE <<>>,
                               from |-> IF calls = <<>> THEN 1 ELSE calls[Len(calls)].to + 1,
                               to |-> Len(s)])
    /\ todo' = <<>> /\ runs' = 0 /\ results' = <<>>
    /\ IF cmd < Len(plan.commands) THEN cmd' = cmd + 1 /\ pc' = "call" /\ UNCHANGED round
       ELSE /\ cmd' = 1 /\ round' = round + 1
            /\ pc' = IF ok /\ round + 1 < plan.rounds THEN "call" ELSE "over"
Return(ok, res, s) ==
    /\ calls' = Append(calls, [command |-> cmd, ok |-> ok, results |-> IF Current.collect THEN res ELSE <<>>,
                               from |-> IF calls = <<>> THEN 1 ELSE calls[Len(calls)].to + 1,
                               to |-> Len(s)])
    /\ todo' = <<>> /\ runs' = 0 /\ results' = <<>>
    /\ IF ~ok THEN pc' = "failed" /\ UNCHANGED <<cmd, round>>
       ELSE IF cmd < Len(plan.commands) THEN cmd' = cmd + 1 /\ pc' = "call" /\ UNCHANGED round
       ELSE /\ cmd' = 1 /\ round' = round + 1
            /\ pc' = IF round + 1 < plan.rounds THEN "call" ELSE "over"

\* ProcessCommand up to the first thing sent.
Call ==
    /\ pc = "call" /\ plan.kind # "local"
    /\ \/ /\ Current.location = <<>>
          /\ todo' = <<Text("none")>> /\ pc' = "send"
          /\ UNCHANGED <<cmd, round, runs, results, calls>>
       \/ /\ Current.location # <<>>
          /\ \E ls \in Expanded(cards, Current) :
                IF ~Fits(Current, ls) THEN Return(FALSE, <<>>, sent)
                ELSE IF ls = <<>> THEN Return(TRUE, <<>>, sent)
                ELSE /\ todo' = [i \in DOMAIN ls |-> Text(Format(Current, ls[i]))]
                     /\ pc' = "send"
                     /\ UNCHANGED <<cmd, round, runs, results, calls>>
    /\ UNCHANGED <<plan, cards, log, refused, sent>>

\* The local router knows no locations.
CallLocal ==
    /\ pc = "call" /\ plan.kind = "local"
    /\ todo' = <<Text("none")>> /\ pc' = "send"
    /\ UNCHANGED <<plan, cards, round, cmd, runs, results, log, refused, sent, calls>>

\* The next command, or the next location, or the end of the call.
NextLocationPast(res) ==                                          \* mutant
    IF Len(todo) >= 1
    THEN /\ todo' = Tail(todo) /\ runs' = 0 /\ results' = res /\ pc' = "send"
         /\ UNCHANGED <<cmd, round, calls>>
    ELSE Return(TRUE, res, sent')
NextLocation(res) ==
    IF Len(todo) > 1
    THEN /\ todo' = Tail(todo) /\ runs' = 0 /\ results' = res /\ pc' = "send"
         /\ UNCHANGED <<cmd, round, calls>>
    ELSE Return(TRUE, res, sent')

\* The next run of the command in hand, with the records logged before it, or none.
Give(records) ==
    /\ pc = "send"
    /\ IF Unfilled
       THEN Return(FALSE, <<>>, sent) /\ UNCHANGED <<log, refused, sent>>
       ELSE IF Panics(Current) \/ (runs < Repeats(Current) /\ RunPanics(Current))
       THEN /\ pc' = "panicked"
            /\ UNCHANGED <<cmd, round, todo, runs, results, calls, log, refused, sent>>
       ELSE IF runs >= Repeats(Current)
       THEN UNCHANGED <<log, refused, sent>> /\ NextLocation(results)
       ELSE /\ Log(records)
            /\ sent' = Append(sent, [text |-> Head(todo), answered |-> FALSE])
            /\ pc' = "await"
            /\ UNCHANGED <<cmd, round, todo, runs, results, calls>>
    /\ UNCHANGED <<plan, cards>>

\* The output is there: it is logged and kept; a loop waits for its ticker, also
\* after the last run.
KeepUnlogged(records) ==                                          \* mutant
    /\ pc = "await"
    /\ sent' = [sent EXCEPT ![Len(sent)].answered = TRUE]
    /\ IF Ticks(Current) THEN UNCHANGED <<log, refused>> ELSE Log(records)
    /\ LET res == Append(results, [text |-> Head(todo), nth |-> Len(sent)])
       IN  IF Ticks(Current)
           THEN /\ pc' = "tick" /\ runs' = runs + 1 /\ results' = res
                /\ UNCHANGED <<cmd, round, todo, calls>>
           ELSE NextLocation(res)
    /\ UNCHANGED <<plan, cards>>
Keep(records) ==
    /\ pc = "await"
    /\ sent' = [sent EXCEPT ![Len(sent)].answered = TRUE]
    /\ Log(records)
    /\ LET res == Append(results, [text |-> Head(todo), nth |-> Len(sent)])
       IN  IF Ticks(Current)
           THEN /\ pc' = "tick" /\ runs' = runs + 1 /\ results' = res
                /\ UNCHANGED <<cmd, round, todo, calls>>
           ELSE NextLocation(res)
    /\ UNCHANGED <<plan, cards>>

\* A command over SSH is logged when it is written, a local one when it is over.
Send   == plan.kind # "local" /\ Give(<<Header(Head(todo))>>)
Answer == plan.kind # "local" /\ Keep(<<Output(Head(todo), Len(sent))>>)

Execute   == plan.kind = "local" /\ Give(<<>>)
Completed ==
    plan.kind = "local" /\ Keep(<<Header(Head(todo)), Output(Head(todo), Len(sent))>>)

\* Write error, lost connection, exit status: what was collected is given up.
FailPartial ==                                                    \* mutant
    /\ pc = "await"
    /\ Return(FALSE, results, sent)
    /\ UNCHANGED <<plan, cards, log, refused, sent>>
Fail ==
    /\ pc = "await"
    /\ Return(FALSE, <<>>, sent)
    /\ UNCHANGED <<plan, cards, log, refused, sent>>

\* The timer of a remote command; a local one has none.
TimeoutLoop ==                                                    \* mutant
    /\ pc = "await" /\ plan.kind # "local" /\ Ticks(Current)
    /\ Return(FALSE, <<>>, sent)
    /\ UNCHANGED <<plan, cards, log, refused, sent>>
Timeout ==
    /\ pc = "await" /\ plan.kind # "local"
    /\ Return(FALSE, <<>>, sent)
    /\ UNCHANGED <<plan, cards, log, refused, sent>>

Tick ==
    /\ pc = "tick" /\ pc' = "send"
    /\ UNCHANGED <<plan, cards, round, cmd, todo, runs, results, log, refused, sent, calls>>

Ended == pc \in {"unreachable", "failed", "panicked", "over"} /\ UNCHANGED vars

Own  == Call \/ CallLocal \/ Send \/ Execute \/ Tick \/ Timeout
Next == Connect \/ Own \/ Answer \/ Completed \/ Fail \/ Ended

\* The code goes on, its writes return and its timers fire; no connection has to come
\* about, no router and no local command has to answer.
Spec == Init /\ [][Next]_vars /\ WF_vars(Own)

-----------------------------------------------------------------------------
(* Properties.                                                             *)

Result == [text: [command: Nat \ {0}, at: Locations \cup {"none"}], nth: Nat \ {0}]

\* The caller is at a statement of the code, its locals are of their types.
TypeOK ==
    /\ plan \in Plans /\ pc \in Pcs
    /\ cards.rps \subseteq Locations /\ cards.lcs \subseteq Locations
    /\ round \in 0..plan.rounds /\ runs \in Nat /\ refused \in 0..MaxRefused
    /\ cmd \in DOMAIN plan.commands
    /\ \A i \in DOMAIN todo : todo[i].at \in Locations \cup {"none"}
    /\ \A i \in DOMAIN results : results[i] \in Result
    /\ pc \in {"send", "await", "tick"} => todo # <<>>

\* What a router saw, as its log should tell it: each command, and the output if
\* there was one; a local command is logged when it has succeeded.
Told(s, kind, n) ==
    IF s[n].answered THEN <<Header(s[n].text), Output(s[n].text, n)>>
    ELSE IF kind = "local" THEN <<>> ELSE <<Header(s[n].text)>>
TranscriptOf(s, kind) ==
    LET told[n \in 0..Len(s)] == IF n = 0 THEN <<>> ELSE told[n - 1] \o Told(s, kind, n)
    IN  told[Len(s)]
Transcript == TranscriptOf(sent, plan.kind)

\* The log tells the session: all commands and outputs in the order in which they
\* happened, each output behind its command, except the records it refused, which
\* nobody notices (router.go:537-540, 572-576; local.go:68-72, 88-92).
LogTellsSession ==
    \E lost \in kSubset(refused, DOMAIN Transcript) : log = Without(Transcript, lost)

\* The cards a keyword or a name of the file means; "all" means the route processors
\* and the slots, which on a box without line cards are its route processors again.
Means(p, k) ==
    LET rps == IF p.kind = "xr" THEN Running(p, "rp") ELSE {}
        lcs == IF p.kind = "xr" THEN Running(p, "lc") ELSE {}
        slots == IF lcs = {} THEN rps ELSE lcs
    IN  CASE k = "all"    -> ({"rp"} \X rps) \cup ({"slot"} \X slots)
          [] k = "all-rp" -> {"rp"} \X rps
          [] k = "all-lc" -> {"slot"} \X slots
          [] OTHER        -> {"name"} \X {k}

\* How often the file asks for a command at a place: for each entry of its list and
\* each card that means, its times, one if it has none (README.md:30).
TimesAsked(c) == IF c.times = 0 THEN 1 ELSE c.times
Meant(p, k, places) == {m \in Means(p, k) : m[2] \in places}
Asked(p, c, at) ==
    IF p.kind = "local" \/ c.location = <<>> THEN IF at = "none" THEN TimesAsked(c) ELSE 0
    ELSE LET places == {l \in Locations : Format(c, l) = at}
         IN  TimesAsked(c) *
             Cardinality(UNION {{i} \X Meant(p, c.location[i], places) : i \in DOMAIN c.location})

SentIn(call) == call.from..call.to

Served(call) ==
    \A at \in Locations \cup {"none"} :
        Cardinality({i \in SentIn(call) : sent[i].text.at = at})
            = Asked(plan, plan.commands[call.command], at)

\* The two forms a command has in the documents: run once, or a number of times at
\* an interval.
Documented(c) == c.times = 0 \/ (c.times > 0 /\ c.interval > 0)

\* A call that succeeds has sent the command to every card it names, as often as it
\* names it and its times asks for, whatever order the maps of cards gave
\* (router.go:89-141, 244-334, 336-372).
EveryCardServed ==
    \A n \in DOMAIN calls :
        calls[n].ok /\ Documented(plan.commands[calls[n].command]) => Served(calls[n])

Answers(s, c) ==
    [k \in 1..(c.to - c.from + 1) |->
        [text |-> s[c.from + k - 1].text, nth |-> c.from + k - 1]]

\* The results of a call are the answers to what it sent, all of them, in that
\* order; a call that fails returns none of the answers it got (router.go:177-221).
ResultsAreAnswers ==
    \A n \in DOMAIN calls :
        LET c == calls[n]
        IN  /\ c.ok => \A i \in SentIn(c) : sent[i].answered
            /\ c.results = IF c.ok /\ plan.commands[c.command].collect THEN Answers(sent, c) ELSE <<>>

\* Nothing is sent after a failure, and nothing before the templates are parsed and
\* all locations of the command are known to fit (router.go:203-215, 244-285).
FailureIsClean ==
    \A n \in DOMAIN calls : ~calls[n].ok =>
        LET c == plan.commands[calls[n].command]
        IN  /\ n = Len(calls) /\ Len(sent) = calls[n].to
            /\ calls[n].to >= calls[n].from /\ c.location # <<>> /\ plan.kind # "local" =>
                 \A ls \in Expanded(cards, c) : Fits(c, ls)

\* However silent the router, the run over its commands ends once it is connected
\* (router.go:547, 578-580); not so for a local command, which has no timer.
RunEnds ==
    pc = "call" /\ plan.kind # "local" ~> pc \in {"failed", "panicked", "over"}
===============================================================================
