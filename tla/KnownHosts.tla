------------------------------ MODULE KnownHosts ------------------------------
(***************************************************************************)
(* The known-hosts file of cmd/ssh.go: a line per host with its key, read  *)
(* whole when a verifier is made and written at the place where that read  *)
(* has ended.                                                              *)
(*                                                                         *)
(* The file is a sequence of cells. A line takes as many as its host name  *)
(* has characters, and one for its end; so a line written over another may *)
(* leave a piece of it, which is no line.                                  *)
(***************************************************************************)
EXTENDS Inventory

CONSTANT HostKeys   \* what is told apart of host keys: whether they are equal

\* normalizeKnownHost: spaces and case are gone, and port 22 goes without saying.
Host(target) ==
    [name |-> Lower(Trim(target.address, {"space", "tab"})), port |-> target.port]

HostType == [name: Seq(Chars), port: Nat]
Cell == [host: HostType, key: HostKeys \cup {"none"}, part: Nat]

NoHost == [name |-> <<>>, port |-> 0]
EOL == [host |-> NoHost, key |-> "none", part |-> 0]

\* Whoever wrote the file has ended its last line; the tool writes where the file ends.
Terminated(file) == file = <<>> \/ file[Len(file)] = EOL

\* knownhosts.Line and the line end that is written with it.
Line(host, key) ==
    [i \in 1..Len(host.name) |-> [host |-> host, key |-> key, part |-> i]] \o <<EOL>>

\* What bufio.Scanner gives: the cells between line ends, an empty line as well.
Starts(file) == {p \in DOMAIN file : p = 1 \/ file[p - 1] = EOL}
LineFrom(file, p) ==
    SubSeq(file, p, Min({q \in p..(Len(file) + 1) : q > Len(file) \/ file[q] = EOL}) - 1)

\* ssh.ParseKnownHosts on one line: an empty line or a piece of one is an error.
IsLine(cells) ==
    /\ cells # <<>>
    /\ Append(cells, EOL) = Line(cells[1].host, cells[1].key)
Parses(file) == \A p \in Starts(file) : IsLine(LineFrom(file, p))

\* v.knownHosts as NewVerifier fills it: of several lines of a host the last counts.
HostsOf(file) == {file[p].host : p \in Starts(file)}
Known(file) ==
    [h \in HostsOf(file) |-> file[Max({p \in Starts(file) : file[p].host = h})].key]

\* A write at an offset that may have been passed by another writer.
WriteAtCutting(file, offset, cells) ==                            \* mutant
    SubSeq(file, 1, offset) \o cells
WriteAt(file, offset, cells) ==
    SubSeq(file, 1, offset) \o cells \o SubSeq(file, offset + Len(cells) + 1, Len(file))
===============================================================================
