------------------------------- MODULE Inventory -------------------------------
(***************************************************************************)
(* The inventory of routers of cmd/routercommander.go: names are           *)
(* normalised, the file is loaded into a map, and a name given on the      *)
(* command line or taken from the map is resolved to where to connect.     *)
(*                                                                         *)
(* A name is a sequence of characters: letters, of which "R" is one in     *)
(* upper case, a space, a tab or line end ("tab") or a comma.              *)
(***************************************************************************)
EXTENDS Integers, Sequences, FiniteSets, SequencesExt

CONSTANT Chars      \* the characters names and addresses are made of

ASSUME CharsAssumption == {"R", "r", "space", "tab", "comma"} \subseteq Chars

\* strings.Trim(s, cut)
Trim(s, cut) ==
    LET solid == {i \in DOMAIN s : s[i] \notin cut}
    IN  IF solid = {} THEN <<>> ELSE SubSeq(s, Min(solid), Max(solid))

Lower(s) == [i \in DOMAIN s |-> IF s[i] = "R" THEN "r" ELSE s[i]]

\* The second Trim may bring a space to an end again: "r ," becomes "r ", and that "r".
normalizeRouterName(name) == Trim(Lower(Trim(name, {"space", "tab"})), {"tab", "comma"})

\* An entry of the file: its name, and its target, which YAML leaves nil for a name
\* without a body. An address of no characters, port 0 and user "" are not given;
\* of users is told who has named them, the file or the command line ("cli").
Target == [address: Seq(Chars), port: Nat, user: {"", "file", "cli", "nil"}]
NoTarget == [address |-> <<>>, port |-> 0, user |-> "nil"]

\* getRoutersInventory passes over entries without a name or an address, and takes a
\* nil target for one.
Named(file)  == {e \in file : normalizeRouterName(e.name) # <<>>}
Panics(file) == \E e \in Named(file) : e.target = NoTarget
Listed(file) == {e \in Named(file) : e.target.address # <<>>}
Keys(file)   == {normalizeRouterName(e.name) : e \in Listed(file)}

DefaultPort == 22
WithPort(target) == IF target.port = 0 THEN [target EXCEPT !.port = DefaultPort] ELSE target

\* Entries whose names are normalised to one key: the last the loop comes to stays,
\* and it goes through a map.
Inventories(file) ==
    {inv \in [Keys(file) -> {WithPort(e.target) : e \in Listed(file)}] :
        \A k \in Keys(file) : \E e \in Listed(file) :
            normalizeRouterName(e.name) = k /\ inv[k] = WithPort(e.target)}

\* main without a name: every key, normalised once more, in the order of a map.
Names(inv) ==
    {[i \in DOMAIN keys |-> normalizeRouterName(keys[i])] : keys \in SetToSeqs(DOMAIN inv)}

\* resolveRouterTarget: the target of a name, with the defaults of the command line,
\* or nil: then main connects to the name as it was given, at the default port.
Found(name, inv) == normalizeRouterName(name) \in DOMAIN inv
ResolvedAtDefault(name, inv, port, user) ==                       \* mutant
    LET target == inv[normalizeRouterName(name)]
    IN  [address |-> target.address, port |-> port, user |-> user]
Resolved(name, inv, port, user) ==
    LET target == inv[normalizeRouterName(name)]
    IN  [address |-> target.address,
         port |-> IF target.port = 0 THEN port ELSE target.port,
         user |-> IF target.user = "" THEN user ELSE target.user]
Direct(name, port, user) == [address |-> name, port |-> port, user |-> user]
===============================================================================
