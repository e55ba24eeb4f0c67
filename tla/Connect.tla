-------------------------------- MODULE Connect --------------------------------
(***************************************************************************)
(* How routercommander gets from its command line to sessions: main loads  *)
(* the inventory, makes a list of names and goes through it one by one;    *)
(* each is resolved, a verifier reads the known-hosts file, and the dial   *)
(* asks it about the key the router shows (cmd/routercommander.go,         *)
(* cmd/ssh.go).  Several processes of the tool may run at once; what they  *)
(* share is the known-hosts file.  The sessions and what follows are those *)
(* of module FanOut.                                                       *)
(***************************************************************************)
EXTENDS KnownHosts

CONSTANTS Processes,  \* processes of the tool
          Calls,      \* Calls[p]: how p may be called
          Files,      \* known-hosts files to begin with
          Network,    \* the hosts that can be reached
          NewKeys,    \* the hosts of which one may be given a new key
          Torn        \* Torn: a write may fail half way

\* --router-name (or <<>>), the inventory file (or none), --port, --insecure-ssh,
\* and stop_on_error of the commands.
CallType ==
    {c \in [name: Seq(Chars), hasFile: BOOLEAN, file: SUBSET [name: Seq(Chars), target: Target],
            port: Nat \ {0}, insecure: BOOLEAN, stopOnError: BOOLEAN] :
        IsFiniteSet(c.file) /\ (c.name # <<>> \/ c.hasFile)}

ASSUME ConnectAssumption ==
    /\ \A p \in Processes : Calls[p] \subseteq CallType
    /\ NewKeys \subseteq Network /\ Torn \in BOOLEAN
    /\ {"key", "newkey"} \subseteq HostKeys
    /\ Network \subseteq HostType /\ \A h \in Network : h.name # <<>>
    /\ \A f \in Files : f \in Seq(Cell) /\ Terminated(f) /\ Parses(f)

VARIABLES
    call,      \* call[p]: how process p was called
    pc,        \* pc[p]: the statement of main
    inv,       \* inv[p]: the inventory
    routers,   \* routers[p]: the names main goes through
    target,    \* target[p]: where the router at hand is
    known,     \* known[p]: the keys its verifier has read
    offset,    \* offset[p]: where in the file that verifier writes
    file,      \* the known-hosts file
    key,       \* key[h]: the key the router at h shows
    rekeyed,   \* history: has a router been given a new key?
    dialed,    \* history: dialed[p]: where p has connected to, in order
    accepted,  \* history: hosts and keys that were accepted, by comparison or as new
    overlaid,  \* history: has a write met what another process had written?
    torn       \* history: has a write failed half way?

mainVars  == <<call, pc, inv, routers, target, known, offset, dialed>>
worldVars == <<file, key, rekeyed, accepted, overlaid, torn>>
vars == <<mainVars, worldVars>>

Ends == {"over", "failed", "panicked"}
Pcs  == {"load", "resolve", "verifier", "dial"} \cup Ends
None == [address |-> <<>>, port |-> 0, user |-> ""]

Init ==
    /\ call \in {c \in [Processes -> UNION Range(Calls)] : \A p \in Processes : c[p] \in Calls[p]}
    /\ pc = [p \in Processes |-> "load"]
    /\ inv = [p \in Processes |-> << >>]
    /\ routers = [p \in Processes |-> <<>>]
    /\ target = [p \in Processes |-> None]
    /\ known = [p \in Processes |-> << >>]
    /\ offset = [p \in Processes |-> 0]
    /\ dialed = [p \in Processes |-> <<>>]
    /\ file \in Files
    /\ key = [h \in Network |-> "key"]
    /\ rekeyed = FALSE /\ accepted = {} /\ overlaid = FALSE /\ torn = FALSE

Single(p) == call[p].name # <<>>
Goto(p, s) == pc' = [pc EXCEPT ![p] = s]

-----------------------------------------------------------------------------
\* The inventory and the list of routers.
Load(p) ==
    /\ pc[p] = "load"
    /\ \/ /\ call[p].hasFile /\ Panics(call[p].file)
          /\ Goto(p, "panicked") /\ UNCHANGED <<inv, routers>>
       \/ /\ call[p].hasFile /\ ~Panics(call[p].file)
          /\ \E i \in Inventories(call[p].file) :
                /\ inv' = [inv EXCEPT ![p] = i]
                /\ \E names \in IF Single(p) THEN {<<call[p].name>>} ELSE Names(i) :
                      routers' = [routers EXCEPT ![p] = names]
          /\ Goto(p, "resolve")
       \/ /\ ~call[p].hasFile
          /\ routers' = [routers EXCEPT ![p] = <<call[p].name>>]
          /\ Goto(p, "resolve") /\ UNCHANGED inv
    /\ UNCHANGED <<call, target, known, offset, dialed>> /\ UNCHANGED worldVars

\* The next router of the list. A name that is not listed is taken for an address.
Resolve(p) ==
    /\ pc[p] = "resolve"
    /\ IF routers[p] = <<>> THEN Goto(p, "over") /\ UNCHANGED target
       ELSE LET name == Head(routers[p])
            IN  /\ target' = [target EXCEPT ![p] =
                       IF call[p].hasFile /\ Found(name, inv[p])
                       THEN Resolved(name, inv[p], call[p].port, "cli")
                       ELSE Direct(name, call[p].port, "cli")]
                /\ Goto(p, "verifier")
    /\ UNCHANGED <<call, inv, routers, known, offset, dialed>> /\ UNCHANGED worldVars

\* NewVerifier, also with --insecure-ssh: the whole file is read, and if it does not
\* parse main exits. The offset is that of the end.
OpenVerifier(p) ==
    /\ pc[p] = "verifier"
    /\ IF Parses(file)
       THEN /\ known' = [known EXCEPT ![p] = Known(file)]
            /\ offset' = [offset EXCEPT ![p] = Len(file)]
            /\ Goto(p, "dial")
       ELSE Goto(p, "failed") /\ UNCHANGED <<known, offset>>
    /\ UNCHANGED <<call, inv, routers, target, dialed>> /\ UNCHANGED worldVars

\* NewRouter has a session, or it has failed and main stops or goes on. A key may be
\* accepted for a session that then fails, of a user who is not let in.
Connected(p) == Goto(p, "resolve") /\ routers' = [routers EXCEPT ![p] = Tail(@)]
Refused(p) ==
    IF ~call[p].stopOnError /\ ~Single(p)
    THEN Goto(p, "resolve") /\ routers' = [routers EXCEPT ![p] = Tail(@)]
    ELSE Goto(p, "failed") /\ UNCHANGED routers

Write(cells, p) ==
    /\ file' = WriteAt(file, offset[p], cells)
    /\ overlaid' = (overlaid \/ offset[p] # Len(file))

\* remoteHostKeyCallback, by what the verifier knows of the host.
Compare(p, h) ==
    /\ h \in DOMAIN known[p]
    /\ IF known[p][h] = key[h]
       THEN (Connected(p) \/ Refused(p)) /\ accepted' = accepted \cup {[host |-> h, key |-> key[h]]}
       ELSE Refused(p) /\ UNCHANGED accepted
    /\ UNCHANGED <<file, overlaid, torn>>
LearnUnwritten(p, h) ==                                           \* mutant
    /\ h \notin DOMAIN known[p]
    /\ accepted' = accepted \cup {[host |-> h, key |-> key[h]]}
    /\ Connected(p)
    /\ UNCHANGED <<torn, file, overlaid>>
LearnUnended(p, h) ==                                             \* mutant
    /\ h \notin DOMAIN known[p]
    /\ Write(SubSeq(Line(h, key[h]), 1, Len(h.name)), p)
    /\ accepted' = accepted \cup {[host |-> h, key |-> key[h]]}
    /\ Connected(p) \/ Refused(p)
    /\ UNCHANGED torn
Learn(p, h) ==
    /\ h \notin DOMAIN known[p]
    /\ Write(Line(h, key[h]), p)
    /\ accepted' = accepted \cup {[host |-> h, key |-> key[h]]}
    /\ Connected(p) \/ Refused(p)
    /\ UNCHANGED torn
LearnTorn(p, h) ==
    /\ Torn /\ h \notin DOMAIN known[p]
    /\ \E n \in 0..Len(h.name) : Write(SubSeq(Line(h, key[h]), 1, n), p)
    /\ torn' = TRUE
    /\ Refused(p)
    /\ UNCHANGED accepted

\* ssh.Dial: no answer, or the callback decides.
Dial(p) ==
    /\ pc[p] = "dial"
    /\ dialed' = [dialed EXCEPT ![p] = Append(@, target[p])]
    /\ LET h == Host(target[p])
       IN  \/ Refused(p) /\ UNCHANGED <<file, accepted, overlaid, torn>>
           \/ /\ h \in Network /\ call[p].insecure
              /\ Connected(p) /\ UNCHANGED <<file, accepted, overlaid, torn>>
           \/ /\ h \in Network /\ ~call[p].insecure
              /\ Compare(p, h) \/ Learn(p, h) \/ LearnTorn(p, h)
    /\ UNCHANGED <<call, inv, target, known, offset, key, rekeyed>>

Rekey(h) ==
    /\ ~rekeyed /\ rekeyed' = TRUE
    /\ key' = [key EXCEPT ![h] = "newkey"]
    /\ UNCHANGED <<file, accepted, overlaid, torn>> /\ UNCHANGED mainVars

Main(p) == Load(p) \/ Resolve(p) \/ OpenVerifier(p) \/ Dial(p)

Ended == (\A p \in Processes : pc[p] \in Ends) /\ UNCHANGED vars

Next ==
    \/ \E p \in Processes : Main(p)
    \/ \E h \in NewKeys : Rekey(h)
    \/ Ended

\* No fairness: a process may be killed at any statement, and what is left is what a
\* process that is never scheduled again leaves.
Spec == Init /\ [][Next]_vars

-----------------------------------------------------------------------------
(* Properties.                                                             *)

\* main is at a statement of the code, its locals are of their types.
TypeOK ==
    /\ \A p \in Processes : call[p] \in Calls[p] /\ pc[p] \in Pcs /\ offset[p] \in Nat
    /\ \A p \in Processes : target[p] \in Target
    /\ DOMAIN key = Network /\ rekeyed \in BOOLEAN /\ overlaid \in BOOLEAN /\ torn \in BOOLEAN
    /\ \A p \in Processes : pc[p] = "dial" => offset[p] <= Len(file)

\* The known-hosts file can be read as long as no write was cut short and none met
\* another process's: no process is stopped by it (ssh.go:58-63, 103-113).
FileStaysReadable == ~torn /\ ~overlaid => Parses(file)

\* Trust on first use is deterministic: whatever the order of processes and new keys,
\* one key of a host is ever accepted, and it is on file, unless writes have met
\* or were cut (ssh.go:44-69; docs/review_cleanup_plan.md:39).
OneKeyPerHost ==
    ~torn /\ ~overlaid =>
        \A a \in accepted : a.host \in HostsOf(file) /\ Known(file)[a.host] = a.key

\* Where an entry of the inventory is: at its port, or at 22.
PlaceOf(e) == <<e.target.address, IF e.target.port = 0 THEN 22 ELSE e.target.port>>
Place(t) == <<t.address, t.port>>
Stable(f) ==
    \A e \in f : normalizeRouterName(normalizeRouterName(e.name)) = normalizeRouterName(e.name)

\* A process that goes through the inventory to the end contacts one entry for each
\* name, each once, and nothing else, when no name changes by being normalised again
\* (routercommander.go:219-221, 291-313).
InventoryContacted ==
    \A p \in Processes :
        pc[p] = "over" /\ call[p].hasFile /\ ~Single(p) /\ Stable(call[p].file) =>
            /\ Len(dialed[p]) = Cardinality(Keys(call[p].file))
            /\ \A n \in Keys(call[p].file) : \E i \in DOMAIN dialed[p] :
                 \E e \in Listed(call[p].file) :
                     normalizeRouterName(e.name) = n /\ Place(dialed[p][i]) = PlaceOf(e)
            /\ \A i \in DOMAIN dialed[p] : \E e \in Listed(call[p].file) :
                 Place(dialed[p][i]) = PlaceOf(e)
===============================================================================
